---------------------------- MODULE Spec2Model ----------------------------
(***************************************************************************)
(* ReachTime: the send-time recommendation engine (services/scheduling),   *)
(* the customer detail drawer that drives it (CustomerDetailDrawer.tsx)    *)
(* and the focus-item slice of the zustand store.                          *)
(*                                                                         *)
(* Time.  An instant is a number of minutes since the Unix epoch; day 0 is *)
(* Thursday 1970-01-01.  A timezone is a fixed whole-hour offset from UTC  *)
(* (daylight-saving transitions are outside the model).  A calendar date   *)
(* "yyyy-MM-dd" is represented by its day number: the code only compares   *)
(* date strings for equality and lexicographic order, which coincide with  *)
(* equality and order of day numbers.  A time string "HH:MM" is the        *)
(* sequence of its four digits.                                            *)
(***************************************************************************)
EXTENDS Integers, Sequences, FiniteSets, TLC

VARIABLES
    \* ---- scheduling service: one call of a recommendation entry point ----
    sNow,        \* new Date() at the call
    sCustomer,   \* the Customer argument
    sUserTz,     \* userTimezone argument
    sSysTz,      \* the browser's own timezone (date-fns setHours/addDays act in it)
    sPrefs,      \* extractedPreferences argument
    sUserHours,  \* userWorkHours argument
    sHolidays,   \* the dates the holiday service knows as public holidays
    sPc,         \* "idle" | "done"
    sVariant,    \* which entry point ran: "none" | "batch" | "single" | "sync" | "syncLegacy"
    sThrown,     \* whether (which of) the holiday lookups of the call threw
    sRec,        \* the ExtendedScheduleRecommendation returned
    sLookups,    \* number of holiday lookup requests issued by the call
    \* ---- store (zustand) ----
    clock,            \* Date.now()
    customers,        \* the store's Customer record of the customer in the drawer
    userProfile,      \* the store's UserProfile
    focusItems,       \* the store's FocusItem of that customer
    vaultState,       \* "locked" | "unlocked"
    vault,            \* the encrypted storage: the persisted Customer and FocusItem
    activeReminders,  \* the customer's entry of the activeReminders map
    timers,           \* the browser's pending setTimeouts of setReminder
    remLog,           \* what the reminders have done so far (observation only)
    pendingSaves,     \* store writes awaiting vault.saveFocusItems
    \* ---- CustomerDetailDrawer ----
    drawer,           \* mounted?, and the component's useState cells
    schedInFlight,    \* getNextAvailableWindow promises not yet settled
    extractInFlight,  \* extractPreferences promises not yet settled
    obs               \* what the last step did (observation only)

schedVars == <<sNow, sCustomer, sUserTz, sSysTz, sPrefs, sUserHours, sHolidays,
               sPc, sVariant, sThrown, sRec, sLookups>>

drawerVars == <<clock, customers, userProfile, focusItems, vaultState, vault,
                activeReminders,
                timers, remLog, pendingSaves, drawer, schedInFlight, extractInFlight,
                obs>>

vars == <<schedVars, drawerVars>>

----------------------------------------------------------------------------
(* Constants of services/scheduling *)

DEFAULT_WORK_START == 9
DEFAULT_WORK_END == 17
LEGACY_DEFAULT_WORK_END == 18
DEFAULT_USER_WORK_START == 9
DEFAULT_USER_WORK_END == 18
WEEKEND_DAYS == {0, 6}
MIN_BUFFER_MINUTES == 15
MAX_LOOKAHEAD_DAYS == 14

WEEKDAY_MAP ==
    [wd \in {"SUN", "MON", "TUE", "WED", "THU", "FRI", "SAT"} |->
        CASE wd = "SUN" -> 0 [] wd = "MON" -> 1 [] wd = "TUE" -> 2
          [] wd = "WED" -> 3 [] wd = "THU" -> 4 [] wd = "FRI" -> 5
          [] wd = "SAT" -> 6]

MinutesPerHour == 60
MinutesPerDay == 1440

----------------------------------------------------------------------------
(* Timezone-aware helpers *)

\* toZonedTime: the wall clock of instant t in timezone tz, in minutes
toZonedTime(t, tz) == t + tz * MinutesPerHour

\* fromZonedTime: the instant whose wall clock in tz is `local`
fromZonedTime(local, tz) == local - tz * MinutesPerHour

startOfDay(local) == (local \div MinutesPerDay) * MinutesPerDay

addDays(local, n) == local + n * MinutesPerDay

addMinutes(local, n) == local + n

\* setMinutes(setHours(local, hour), 0): same day, the given hour, minute 0
setHoursMinutes0(local, hour) == startOfDay(local) + hour * MinutesPerHour

\* parseTimeString("HH:MM"): split at ':' and parseInt both halves
parseTimeString(timeStr) ==
    [hour |-> timeStr[1] * 10 + timeStr[2], minute |-> timeStr[3] * 10 + timeStr[4]]

\* formatInTimeZone(date, tz, 'i') is the ISO weekday 1..7 (Mon..Sun), then % 7
getDayOfWeekInTimezone(date, timezone) ==
    LET day == toZonedTime(date, timezone) \div MinutesPerDay
        iso == ((day + 3) % 7) + 1
    IN  iso % 7

getHourInTimezone(date, timezone) ==
    (toZonedTime(date, timezone) \div MinutesPerHour) % 24

getDateStringInTimezone(date, timezone) ==
    toZonedTime(date, timezone) \div MinutesPerDay

isInAvoidDateRanges(dateStr, ranges) ==
    \E i \in 1..Len(ranges) : dateStr >= ranges[i].start /\ dateStr <= ranges[i].end

isAvoidedWeekday(dayOfWeek, avoidWeekdays) ==
    \E wd \in avoidWeekdays : WEEKDAY_MAP[wd] = dayOfWeek

isInTimeWindow(hour, windows) ==
    \E i \in 1..Len(windows) :
        LET start == parseTimeString(windows[i].start)
            end == parseTimeString(windows[i].end)
        IN  IF start.hour <= end.hour
            THEN hour >= start.hour /\ hour < end.hour
            ELSE hour >= start.hour \/ hour < end.hour

getUserFriendlinessScore(userHour, userWorkStart, userWorkEnd) ==
    IF userHour >= userWorkStart /\ userHour < userWorkEnd THEN 4
    ELSE IF userHour >= userWorkEnd /\ userHour < 22 THEN 3
    ELSE IF userHour >= 6 /\ userHour < userWorkStart THEN 2
    ELSE IF userHour >= 22 /\ userHour < 24 THEN 1
    ELSE 0

----------------------------------------------------------------------------
(* Constraint evaluator *)

isValidCandidateIgnoringAvoidWeekdays(candidateDate, customer, extractedPrefs, workStart, workEnd, holidayDates) ==
    LET dayOfWeek == getDayOfWeekInTimezone(candidateDate, customer.timezone)
        customerHour == getHourInTimezone(candidateDate, customer.timezone)
        dateStr == getDateStringInTimezone(candidateDate, customer.timezone)
    IN  IF dayOfWeek \in WEEKEND_DAYS
        THEN [valid |-> FALSE, isHoliday |-> FALSE, isWeekend |-> TRUE]
        ELSE IF dateStr \in holidayDates
        THEN [valid |-> FALSE, isHoliday |-> TRUE, isWeekend |-> FALSE]
        ELSE IF customerHour < workStart \/ customerHour >= workEnd
        THEN [valid |-> FALSE, isHoliday |-> FALSE, isWeekend |-> FALSE]
        ELSE IF extractedPrefs.present
                /\ (\/ dateStr \in extractedPrefs.avoid_dates
                    \/ isInAvoidDateRanges(dateStr, extractedPrefs.avoid_date_ranges)
                    \/ (Len(extractedPrefs.avoid_time_windows) > 0
                        /\ isInTimeWindow(customerHour, extractedPrefs.avoid_time_windows)))
        THEN [valid |-> FALSE, isHoliday |-> FALSE, isWeekend |-> FALSE]
        ELSE [valid |-> TRUE, isHoliday |-> FALSE, isWeekend |-> FALSE]

isValidCandidate(candidateDate, customer, extractedPrefs, workStart, workEnd, holidayDates) ==
    LET dayOfWeek == getDayOfWeekInTimezone(candidateDate, customer.timezone)
        customerHour == getHourInTimezone(candidateDate, customer.timezone)
        dateStr == getDateStringInTimezone(candidateDate, customer.timezone)
    IN  IF dayOfWeek \in WEEKEND_DAYS
        THEN [valid |-> FALSE, isHoliday |-> FALSE, isWeekend |-> TRUE]
        ELSE IF dateStr \in holidayDates
        THEN [valid |-> FALSE, isHoliday |-> TRUE, isWeekend |-> FALSE]
        ELSE IF customerHour < workStart \/ customerHour >= workEnd
        THEN [valid |-> FALSE, isHoliday |-> FALSE, isWeekend |-> FALSE]
        ELSE IF extractedPrefs.present
                /\ (\/ dateStr \in extractedPrefs.avoid_dates
                    \/ isInAvoidDateRanges(dateStr, extractedPrefs.avoid_date_ranges)
                    \/ isAvoidedWeekday(dayOfWeek, extractedPrefs.avoid_weekdays)
                    \/ (Len(extractedPrefs.avoid_time_windows) > 0
                        /\ isInTimeWindow(customerHour, extractedPrefs.avoid_time_windows)))
        THEN [valid |-> FALSE, isHoliday |-> FALSE, isWeekend |-> FALSE]
        ELSE [valid |-> TRUE, isHoliday |-> FALSE, isWeekend |-> FALSE]

\* getPreferenceScore with the weights of preferred_dates and
\* preferred_date_ranges exchanged
getPreferenceScoreRangesFirst(candidateDate, customer, extractedPrefs) ==
    LET customerHour == getHourInTimezone(candidateDate, customer.timezone)
        dayOfWeek == getDayOfWeekInTimezone(candidateDate, customer.timezone)
        dateStr == getDateStringInTimezone(candidateDate, customer.timezone)
        explicit ==
            IF customer.preferredHours.set
               /\ customerHour >= customer.preferredHours.start
               /\ customerHour < customer.preferredHours.end
            THEN 100 ELSE 0
        windows ==
            IF Len(extractedPrefs.preferred_time_windows) > 0
               /\ isInTimeWindow(customerHour, extractedPrefs.preferred_time_windows)
            THEN 50 ELSE 0
        weekdays ==
            IF \E wd \in extractedPrefs.preferred_weekdays : WEEKDAY_MAP[wd] = dayOfWeek
            THEN 30 ELSE 0
        dates == IF dateStr \in extractedPrefs.preferred_dates THEN 35 ELSE 0
        ranges ==
            IF \E i \in 1..Len(extractedPrefs.preferred_date_ranges) :
                  /\ dateStr >= extractedPrefs.preferred_date_ranges[i].start
                  /\ dateStr <= extractedPrefs.preferred_date_ranges[i].end
            THEN 40 ELSE 0
    IN  explicit + (IF extractedPrefs.present
                    THEN windows + weekdays + dates + ranges ELSE 0)

getPreferenceScore(candidateDate, customer, extractedPrefs) ==
    LET customerHour == getHourInTimezone(candidateDate, customer.timezone)
        dayOfWeek == getDayOfWeekInTimezone(candidateDate, customer.timezone)
        dateStr == getDateStringInTimezone(candidateDate, customer.timezone)
        explicit ==
            IF customer.preferredHours.set
               /\ customerHour >= customer.preferredHours.start
               /\ customerHour < customer.preferredHours.end
            THEN 100 ELSE 0
        windows ==
            IF Len(extractedPrefs.preferred_time_windows) > 0
               /\ isInTimeWindow(customerHour, extractedPrefs.preferred_time_windows)
            THEN 50 ELSE 0
        weekdays ==
            IF \E wd \in extractedPrefs.preferred_weekdays : WEEKDAY_MAP[wd] = dayOfWeek
            THEN 30 ELSE 0
        dates == IF dateStr \in extractedPrefs.preferred_dates THEN 40 ELSE 0
        ranges ==
            IF \E i \in 1..Len(extractedPrefs.preferred_date_ranges) :
                  /\ dateStr >= extractedPrefs.preferred_date_ranges[i].start
                  /\ dateStr <= extractedPrefs.preferred_date_ranges[i].end
            THEN 35 ELSE 0
    IN  explicit + (IF extractedPrefs.present
                    THEN windows + weekdays + dates + ranges ELSE 0)

----------------------------------------------------------------------------
(* Candidate generator *)

\* generateCandidates with the day loop running from the last day of the
\* horizon back to today
generateCandidatesLatestDayFirst(startDate, now, customerTimezone, workStart, workEnd, daysAhead) ==
    LET customerDay0Local == startOfDay(toZonedTime(startDate, customerTimezone))
        perDay == workEnd - workStart
        slot(i) ==
            LET dayOffset == daysAhead - 1 - ((i - 1) \div perDay)
                hour == workStart + ((i - 1) % perDay)
                dayLocal == addDays(customerDay0Local, dayOffset)
            IN  fromZonedTime(setHoursMinutes0(dayLocal, hour), customerTimezone)
        all == IF perDay <= 0 THEN << >>
               ELSE [i \in 1..(daysAhead * perDay) |-> slot(i)]
    IN  SelectSeq(all, LAMBDA t : ~(t <= now + MIN_BUFFER_MINUTES))

generateCandidates(startDate, now, customerTimezone, workStart, workEnd, daysAhead) ==
    LET customerDay0Local == startOfDay(toZonedTime(startDate, customerTimezone))
        perDay == workEnd - workStart
        slot(i) ==
            LET dayOffset == (i - 1) \div perDay
                hour == workStart + ((i - 1) % perDay)
                dayLocal == addDays(customerDay0Local, dayOffset)
            IN  fromZonedTime(setHoursMinutes0(dayLocal, hour), customerTimezone)
        all == IF perDay <= 0 THEN << >>
               ELSE [i \in 1..(daysAhead * perDay) |-> slot(i)]
    IN  SelectSeq(all, LAMBDA t : ~(t <= now + MIN_BUFFER_MINUTES))


----------------------------------------------------------------------------
(* Ranking engine *)

\* the comparator handed to validCandidates.sort: negative when a sorts first
compareCandidatesTimeFirst(a, b) ==
    IF a.time # b.time THEN a.time - b.time
    ELSE IF a.isUserWorkTime # b.isUserWorkTime
    THEN (IF a.isUserWorkTime THEN -1 ELSE 1)
    ELSE IF a.preferenceScore # b.preferenceScore
    THEN b.preferenceScore - a.preferenceScore
    ELSE b.userFriendlinessScore - a.userFriendlinessScore

compareCandidates(a, b) ==
    IF a.isUserWorkTime # b.isUserWorkTime
    THEN (IF a.isUserWorkTime THEN -1 ELSE 1)
    ELSE IF a.preferenceScore # b.preferenceScore
    THEN b.preferenceScore - a.preferenceScore
    ELSE IF a.userFriendlinessScore # b.userFriendlinessScore
    THEN b.userFriendlinessScore - a.userFriendlinessScore
    ELSE a.time - b.time

\* Array.prototype.sort with that comparator.  The sort is stable, so element i
\* lands after every element that compares before it and after every earlier
\* element that compares equal to it.
sortCandidates(seq) ==
    LET n == Len(seq)
        rank == [i \in 1..n |->
                    1 + Cardinality({j \in 1..n :
                            \/ compareCandidates(seq[j], seq[i]) < 0
                            \/ (compareCandidates(seq[j], seq[i]) = 0 /\ j < i)})]
    IN  [k \in 1..n |-> seq[CHOOSE i \in 1..n : rank[i] = k]]

----------------------------------------------------------------------------
(* Recommendation orchestrator *)

NoLabel == "undefined"

WeekdayName(dayOfWeek) ==
    CASE dayOfWeek = 0 -> "Sunday" [] dayOfWeek = 1 -> "Monday"
      [] dayOfWeek = 2 -> "Tuesday" [] dayOfWeek = 3 -> "Wednesday"
      [] dayOfWeek = 4 -> "Thursday" [] dayOfWeek = 5 -> "Friday"
      [] dayOfWeek = 6 -> "Saturday"

\* customer.preferredHours?.start ?? DEFAULT_WORK_START
workStartOf(customer) ==
    IF customer.preferredHours.set THEN customer.preferredHours.start
    ELSE DEFAULT_WORK_START

workEndOf(customer, defaultEnd) ==
    IF customer.preferredHours.set THEN customer.preferredHours.end
    ELSE defaultEnd

\* addDays(setMinutes(setHours(now, workStart), 0), 1): date-fns acts on the
\* Date's fields in the browser's own timezone
fallbackTime(now, sysTz, workStart) ==
    fromZonedTime(addDays(setHoursMinutes0(toZonedTime(now, sysTz), workStart), 1), sysTz)

fallbackRecommendation(now, sysTz, workStart) ==
    [suggestedTime |-> fallbackTime(now, sysTz, workStart),
     isOptimal |-> FALSE, isWeekend |-> FALSE, isHoliday |-> FALSE,
     isUserWorkTime |-> FALSE, userFriendlinessScore |-> 0,
     nextBusinessDay |-> NoLabel, fallback |-> TRUE]

\* the dates sent in the one batched request
uniqueDates(candidates, timezone) ==
    {getDateStringInTimezone(candidates[i], timezone) : i \in 1..Len(candidates)}

\* holidayDates after the try/catch around getHolidayMapBatch: the keys of the
\* response, or the empty set when the call threw
batchHolidayDates(candidates, timezone, holidays, thrown) ==
    IF thrown THEN {} ELSE holidays \cap uniqueDates(candidates, timezone)

\* the evaluation loop: validation[i] of candidate i, scored when valid
scoreCandidate(candidate, validation, customer, userTimezone, extractedPrefs, userWorkStart, userWorkEnd) ==
    LET userHour == getHourInTimezone(candidate, userTimezone)
    IN  [time |-> candidate,
         preferenceScore |-> getPreferenceScore(candidate, customer, extractedPrefs),
         userFriendlinessScore |->
             getUserFriendlinessScore(userHour, userWorkStart, userWorkEnd),
         isUserWorkTime |-> userHour >= userWorkStart /\ userHour < userWorkEnd,
         isHoliday |-> validation.isHoliday,
         isWeekend |-> validation.isWeekend]

\* validCandidates, in generation order; holidayOf[i] is the holiday set that
\* candidate i is validated against
validCandidatesOf(candidates, holidayOf, customer, userTimezone, extractedPrefs, workStart, workEnd, userWorkStart, userWorkEnd) ==
    LET validation(i) == isValidCandidate(candidates[i], customer, extractedPrefs,
                                          workStart, workEnd, holidayOf[i])
        keep == SelectSeq([i \in 1..Len(candidates) |-> i],
                          LAMBDA i : validation(i).valid)
    IN  [k \in 1..Len(keep) |->
            scoreCandidate(candidates[keep[k]], validation(keep[k]), customer,
                           userTimezone, extractedPrefs, userWorkStart, userWorkEnd)]

\* everything after the evaluation loop
selectRecommendation(validCandidates, customer, now, sysTz, workStart) ==
    IF Len(validCandidates) = 0
    THEN fallbackRecommendation(now, sysTz, workStart)
    ELSE LET best == sortCandidates(validCandidates)[1]
             dayOfWeek == getDayOfWeekInTimezone(best.time, customer.timezone)
             isToday == getDateStringInTimezone(best.time, customer.timezone)
                          = getDateStringInTimezone(now, customer.timezone)
         IN  [suggestedTime |-> best.time,
              isOptimal |-> best.isUserWorkTime /\ best.preferenceScore > 0,
              isWeekend |-> dayOfWeek \in WEEKEND_DAYS,
              isHoliday |-> best.isHoliday,
              isUserWorkTime |-> best.isUserWorkTime,
              userFriendlinessScore |-> best.userFriendlinessScore,
              nextBusinessDay |-> IF isToday THEN NoLabel ELSE WeekdayName(dayOfWeek),
              fallback |-> FALSE]

\* userWorkHours?.start ?? DEFAULT_USER_WORK_START
userWorkStartOf(userWorkHours) ==
    IF userWorkHours.set THEN userWorkHours.start ELSE DEFAULT_USER_WORK_START

userWorkEndOf(userWorkHours) ==
    IF userWorkHours.set THEN userWorkHours.end ELSE DEFAULT_USER_WORK_END

\* the current service: candidates, the one batched holiday request inside its
\* try/catch, then the evaluation loop
validCandidatesBatch(customer, userTimezone, extractedPrefs, userWorkHours, now, holidays, thrown) ==
    LET workStart == workStartOf(customer)
        workEnd == workEndOf(customer, DEFAULT_WORK_END)
        candidates == generateCandidates(now, now, customer.timezone, workStart,
                                         workEnd, MAX_LOOKAHEAD_DAYS)
        holidayDates == batchHolidayDates(candidates, customer.timezone, holidays, thrown)
        holidayOf == [i \in 1..Len(candidates) |-> holidayDates]
    IN  validCandidatesOf(candidates, holidayOf, customer, userTimezone, extractedPrefs,
                          workStart, workEnd, userWorkStartOf(userWorkHours),
                          userWorkEndOf(userWorkHours))

\* getNextAvailableWindow of the current service
getNextAvailableWindow(customer, userTimezone, extractedPrefs, userWorkHours, now, sysTz, holidays, thrown) ==
    LET workStart == workStartOf(customer)
        workEnd == workEndOf(customer, DEFAULT_WORK_END)
        candidates == generateCandidates(now, now, customer.timezone, workStart,
                                         workEnd, MAX_LOOKAHEAD_DAYS)
    IN  IF Len(candidates) = 0
        THEN fallbackRecommendation(now, sysTz, workStart)
        ELSE selectRecommendation(
                 validCandidatesBatch(customer, userTimezone, extractedPrefs,
                                      userWorkHours, now, holidays, thrown),
                 customer, now, sysTz, workStart)

\* number of getHolidayMapBatch requests of one such call
batchLookupCount(customer, now) ==
    LET candidates == generateCandidates(now, now, customer.timezone,
                          workStartOf(customer), workEndOf(customer, DEFAULT_WORK_END),
                          MAX_LOOKAHEAD_DAYS)
    IN  IF Len(candidates) = 0 THEN 0 ELSE 1

\* the body the two versions of getNextAvailableWindowSync share: local-date
\* arithmetic only; defaultEnd is the DEFAULT_WORK_END of the version
syncWindow(customer, userTimezone, userWorkHours, now, defaultEnd) ==
    LET workStart == workStartOf(customer)
        workEnd == workEndOf(customer, defaultEnd)
        userWorkStart == userWorkStartOf(userWorkHours)
        userWorkEnd == userWorkEndOf(userWorkHours)
        customerNowLocal == toZonedTime(now, customer.timezone)
        customerHour == (customerNowLocal \div MinutesPerHour) % 24
        dayOfWeek == getDayOfWeekInTimezone(now, customer.timezone)
        isWeekend == dayOfWeek \in WEEKEND_DAYS
        nextDayLocal == addDays(startOfDay(customerNowLocal), 1)
        nextDayOfWeek == (dayOfWeek + 1) % 7
        buffered == addMinutes(customerNowLocal, MIN_BUFFER_MINUTES)
        roundedMinutes == (((buffered % MinutesPerHour) + 14) \div 15) * 15
        onTheHour == buffered - (buffered % MinutesPerHour)
        suggestedLocal ==
            IF isWeekend
            THEN setHoursMinutes0(addDays(startOfDay(customerNowLocal),
                                          IF dayOfWeek = 0 THEN 1 ELSE 2), workStart)
            ELSE IF customerHour < workStart
            THEN setHoursMinutes0(startOfDay(customerNowLocal), workStart)
            ELSE IF customerHour >= workEnd
            THEN IF nextDayOfWeek \in WEEKEND_DAYS
                 THEN setHoursMinutes0(
                          addDays(nextDayLocal, (IF nextDayOfWeek = 6 THEN 2 ELSE 1) - 1),
                          workStart)
                 ELSE setHoursMinutes0(nextDayLocal, workStart)
            ELSE IF roundedMinutes >= 60
            THEN addMinutes(onTheHour, 60)
            ELSE onTheHour + roundedMinutes
        suggestedTime == fromZonedTime(suggestedLocal, customer.timezone)
        userHour == getHourInTimezone(suggestedTime, userTimezone)
        isUserWorkTime == userHour >= userWorkStart /\ userHour < userWorkEnd
    IN  [suggestedTime |-> suggestedTime,
         isOptimal |-> isUserWorkTime,
         isWeekend |-> isWeekend,
         isHoliday |-> FALSE,
         isUserWorkTime |-> isUserWorkTime,
         userFriendlinessScore |->
             getUserFriendlinessScore(userHour, userWorkStart, userWorkEnd),
         nextBusinessDay |->
             IF isWeekend \/ (customerHour >= workStart /\ customerHour >= workEnd
                              /\ nextDayOfWeek \in WEEKEND_DAYS)
             THEN "Monday" ELSE NoLabel,
         fallback |-> FALSE]

\* getNextAvailableWindowSync of the current service
getNextAvailableWindowSync(customer, userTimezone, userWorkHours, now) ==
    syncWindow(customer, userTimezone, userWorkHours, now, DEFAULT_WORK_END)

\* The earlier service: isValidCandidate awaits getHolidayStatus for every
\* candidate that is not on a weekend, each inside its own try/catch.
\* throwsAt[i] tells whether the lookup made for candidate i throws.
singleHolidayDates(dateStr, holidays, thrown) ==
    IF thrown THEN {} ELSE holidays \cap {dateStr}

validCandidatesSingle(customer, userTimezone, extractedPrefs, now, holidays, throwsAt) ==
    LET workStart == workStartOf(customer)
        workEnd == workEndOf(customer, LEGACY_DEFAULT_WORK_END)
        candidates == generateCandidates(now, now, customer.timezone, workStart,
                                         workEnd, MAX_LOOKAHEAD_DAYS)
        holidayOf ==
            [i \in 1..Len(candidates) |->
                singleHolidayDates(getDateStringInTimezone(candidates[i], customer.timezone),
                                   holidays, throwsAt[i])]
    IN  validCandidatesOf(candidates, holidayOf, customer, userTimezone, extractedPrefs,
                          workStart, workEnd, DEFAULT_USER_WORK_START,
                          DEFAULT_USER_WORK_END)

getNextAvailableWindowSingle(customer, userTimezone, extractedPrefs, now, sysTz, holidays, throwsAt) ==
    LET workStart == workStartOf(customer)
        workEnd == workEndOf(customer, LEGACY_DEFAULT_WORK_END)
        candidates == generateCandidates(now, now, customer.timezone, workStart,
                                         workEnd, MAX_LOOKAHEAD_DAYS)
    IN  IF Len(candidates) = 0
        THEN fallbackRecommendation(now, sysTz, workStart)
        ELSE selectRecommendation(
                 validCandidatesSingle(customer, userTimezone, extractedPrefs, now,
                                       holidays, throwsAt),
                 customer, now, sysTz, workStart)

\* number of getHolidayStatus requests of one such call: one per candidate that
\* passes the weekend check
singleLookupCount(customer, now) ==
    LET candidates == generateCandidates(now, now, customer.timezone,
                          workStartOf(customer),
                          workEndOf(customer, LEGACY_DEFAULT_WORK_END),
                          MAX_LOOKAHEAD_DAYS)
    IN  Cardinality({i \in 1..Len(candidates) :
            getDayOfWeekInTimezone(candidates[i], customer.timezone) \notin WEEKEND_DAYS})


----------------------------------------------------------------------------
(* Inputs of the scheduling calls that are explored *)

\* day numbers: 6 = Wed 7 Jan 1970, 8 = Fri 9 Jan, 9 = Sat 10 Jan, 11 = Mon 12 Jan
NowSet ==
    { 6 * MinutesPerDay + 10 * MinutesPerHour + 50,   \* Wed 10:50 UTC
      8 * MinutesPerDay + 11 * MinutesPerHour,        \* Fri 11:00 UTC = Fri 20:00 in UTC+9
      9 * MinutesPerDay + 9 * MinutesPerHour }        \* Sat 09:00 UTC

CustomerTimezones == {0, 9}
UserTimezones == {0, -5}
SystemTimezones == {0, 9}

NoHours == [set |-> FALSE, start |-> 0, end |-> 0]

PreferredHoursSet ==
    { NoHours,
      [set |-> TRUE, start |-> 14, end |-> 16],
      [set |-> TRUE, start |-> 12, end |-> 12],     \* empty window
      [set |-> TRUE, start |-> 18, end |-> 9] }     \* inverted window

UserWorkHoursSet == { NoHours, [set |-> TRUE, start |-> 8, end |-> 12] }

NoPrefs ==
    [present |-> FALSE,
     preferred_time_windows |-> << >>, avoid_time_windows |-> << >>,
     preferred_weekdays |-> {}, avoid_weekdays |-> {},
     preferred_dates |-> {}, avoid_dates |-> {},
     preferred_date_ranges |-> << >>, avoid_date_ranges |-> << >>]

PrefsSet ==
    { NoPrefs,
      \* "not on Mondays, mornings preferred"
      [NoPrefs EXCEPT !.present = TRUE, !.avoid_weekdays = {"MON"},
          !.preferred_time_windows = << [start |-> <<1,0,0,0>>, end |-> <<1,2,0,0>>] >>],
      \* "never between 22:00 and 10:00, nor 14:00-15:00; Tuesdays are good"
      [NoPrefs EXCEPT !.present = TRUE,
          !.avoid_time_windows = << [start |-> <<2,2,0,0>>, end |-> <<1,0,0,0>>],
                                    [start |-> <<1,4,0,0>>, end |-> <<1,5,0,0>>] >>,
          !.preferred_weekdays = {"TUE"}],
      \* "away 12-13 Jan and on 15 Jan; 14 Jan or the week after would be best"
      [NoPrefs EXCEPT !.present = TRUE,
          !.avoid_date_ranges = << [start |-> 11, end |-> 12] >>,
          !.avoid_dates = {14},
          !.preferred_dates = {13},
          !.preferred_date_ranges = << [start |-> 18, end |-> 22] >>],
      \* "away until the end of the month"
      [NoPrefs EXCEPT !.present = TRUE,
          !.avoid_date_ranges = << [start |-> 0, end |-> 30] >>],
      \* "late mornings or Tuesdays; 14 Jan would be best, else 19-23 Jan"
      [NoPrefs EXCEPT !.present = TRUE,
          !.preferred_time_windows = << [start |-> <<1,0,0,0>>, end |-> <<1,2,0,0>>] >>,
          !.preferred_weekdays = {"TUE"},
          !.preferred_dates = {13},
          !.preferred_date_ranges = << [start |-> 18, end |-> 22] >>] }

HolidaySets == { {}, {11}, {7, 12} }

\* which of the per-candidate lookups of the earlier service throw
ThrowPatterns == {"none", "all", "odd", "even"}

throwsAtOf(pattern, n) ==
    [i \in 1..n |->
        CASE pattern = "none" -> FALSE
          [] pattern = "all" -> TRUE
          [] pattern = "odd" -> i % 2 = 1
          [] pattern = "even" -> i % 2 = 0]

NoRec ==
    [suggestedTime |-> 0, isOptimal |-> FALSE, isWeekend |-> FALSE,
     isHoliday |-> FALSE, isUserWorkTime |-> FALSE, userFriendlinessScore |-> 0,
     nextBusinessDay |-> NoLabel, fallback |-> FALSE]



----------------------------------------------------------------------------
(* The customer detail drawer and the focus-item slice of the store          *)
(*                                                                          *)
(* One customer is followed.  A step of the model is one task of the        *)
(* browser's event loop: a user event, a timer, or the settling of one      *)
(* awaited promise, followed by React's re-render and the effects whose     *)
(* dependencies changed (state updates made after an await are batched).    *)

\* One round of the loop: hash = ((hash << 5) - hash) + char; hash = hash & hash.
\* On 32-bit integers that is 31 * hash + char modulo 2^32, read as a signed
\* number; it is computed here on the two 16-bit halves of the word.
hashStep(hash, char) ==
    LET word == [hi |-> (hash \div 65536) % 65536, lo |-> hash % 65536]
        lo31 == word.lo * 31 + char
        hi31 == (word.hi * 31 + (lo31 \div 65536)) % 65536
    IN  (IF hi31 >= 32768 THEN hi31 - 65536 ELSE hi31) * 65536 + (lo31 % 65536)

RECURSIVE hashLoop(_, _, _)
hashLoop(str, i, hash) ==
    IF i > Len(str) THEN hash ELSE hashLoop(str, i + 1, hashStep(hash, str[i]))

\* hashString: the 32-bit hash itself; its rendering toString(16) is injective.
\* A string is the sequence of its UTF-16 code units.
hashString(str) == hashLoop(str, 1, 0)

\* useState('') of extractedPrefsHash, and an absent focusItem.crmNotesHash
NoHash == -1

\* crmNotes values: "", "Aa" and "C"
NotesSet == { << >>, <<65, 97>>, <<67>> }

\* the customer shown in the drawer, under each of its notes
DrawerCustomers ==
    { [present |-> TRUE, timezone |-> 0, preferredHours |-> NoHours, crmNotes |-> notes] :
          notes \in NotesSet }

\* the store holds no Customer of that id (customers: [] while locked, or deleted)
NoCustomer ==
    [present |-> FALSE, timezone |-> 0, preferredHours |-> NoHours, crmNotes |-> << >>]

\* what the extraction oracle may answer: "not on Thursdays, late mornings best"
ExtractionResults ==
    { [NoPrefs EXCEPT !.present = TRUE, !.avoid_weekdays = {"THU"},
          !.preferred_time_windows = << [start |-> <<1,0,0,0>>, end |-> <<1,2,0,0>>] >>] }

\* the instants Date.now() takes: Wed 7 Jan 1970 10:50 UTC, then Fri 9 Jan 11:00
ClockValues ==
    << 6 * MinutesPerDay + 10 * MinutesPerHour + 50,
       8 * MinutesPerDay + 11 * MinutesPerHour >>

\* the browser's timezone, in which <input type="datetime-local"> strings and
\* date-fns setters are interpreted
BrowserTimezone == 9

\* the holiday service as the drawer sees it
DrawerHolidays == {8}

\* bounds on what is simultaneously outstanding
MaxSchedInFlight == 2
MaxExtractInFlight == 2
MaxPendingSaves == 2
\* the extractPreferences counter saturates here
MaxExtractCalls == 2
\* steps of the environment (user events, clock ticks) in one behaviour
MaxEvents == 4

\* the store's initial userProfile: workHours '09:00'..'18:00' parsed by
\* parseHourFromTimeString
InitialWorkHours ==
    [set |-> TRUE,
     start |-> parseTimeString(<<0, 9, 0, 0>>).hour,
     end |-> parseTimeString(<<1, 8, 0, 0>>).hour]

\* What the drawer's calls of getNextAvailableWindow return, for each customer
\* object, sender timezone, preference argument and value of Date.now()
drawerRecommendations ==
    [cust \in DrawerCustomers |->
        [tz \in UserTimezones |->
            [prefs \in {NoPrefs} \cup ExtractionResults |->
                [k \in 1..Len(ClockValues) |->
                    getNextAvailableWindow(cust, tz, prefs, InitialWorkHours,
                        ClockValues[k], BrowserTimezone, DrawerHolidays, FALSE)]]]]

\* no FocusItem for the customer (useFocusItem returns undefined)
NoFocusItem ==
    [present |-> FALSE, isTimeConfirmed |-> FALSE, confirmedScheduledTime |-> 0,
     confirmedAt |-> 0, scheduledTime |-> 0, reminderSet |-> FALSE,
     extractedPreferences |-> NoPrefs, crmNotesHash |-> NoHash]

\* addToFocus: the new item
newItem == [NoFocusItem EXCEPT !.present = TRUE]

\* useState('') of customDateTime; a set value is the wall clock shown in the
\* datetime-local input
NoCustomDateTime == [set |-> FALSE, local |-> 0]

\* the drawer when no CustomerDetailDrawer is mounted
ClosedDrawer ==
    [open |-> FALSE, scheduleRec |-> NoRec, isLoadingSchedule |-> FALSE,
     extractedPrefs |-> NoPrefs, extractedPrefsHash |-> NoHash,
     isEditingTime |-> FALSE, customDateTime |-> NoCustomDateTime]

\* const isTimeConfirmed = focusItem?.isTimeConfirmed || false
isTimeConfirmedOf(item) == item.present /\ item.isTimeConfirmed

\* effectiveSendTime of a render
effectiveSendTime(d, item) ==
    IF isTimeConfirmedOf(item) /\ item.confirmedScheduledTime # 0
    THEN item.confirmedScheduledTime
    ELSE IF d.customDateTime.set
    THEN fromZonedTime(d.customDateTime.local, BrowserTimezone)
    ELSE d.scheduleRec.suggestedTime

\* handleStartEditTime: the effective send time formatted from the Date's own
\* (browser-local) fields
formatDateTimeLocal(t) == [set |-> TRUE, local |-> toZonedTime(t, BrowserTimezone)]

\* updateFocusItem: get().focusItems.map(f => f.customerId === id ? {...f, ...updates} : f)
\* handleConfirmSendTime's updates; `now` is its Date.now()
confirmUpdates(item, t, now) ==
    IF item.present
    THEN [item EXCEPT !.isTimeConfirmed = TRUE, !.confirmedScheduledTime = t,
                      !.confirmedAt = now, !.scheduledTime = t]
    ELSE item

unconfirmUpdates(item) ==
    IF item.present
    THEN [item EXCEPT !.isTimeConfirmed = FALSE, !.confirmedScheduledTime = 0,
                      !.confirmedAt = 0]
    ELSE item

preferenceUpdates(item, prefs, hash) ==
    IF item.present
    THEN [item EXCEPT !.extractedPreferences = prefs, !.crmNotesHash = hash]
    ELSE item

reminderUpdates(item, t) ==
    IF item.present THEN [item EXCEPT !.scheduledTime = t, !.reminderSet = TRUE]
    ELSE item

reminderDoneUpdates(item) ==
    IF item.present THEN [item EXCEPT !.reminderSet = FALSE] ELSE item

\* the encrypted storage holding `cust` and `item`, nothing written since the
\* last lock
vaultHolding(cust, item) ==
    [customers |-> cust, focusItems |-> item, writtenWhileLocked |-> FALSE]

\* saveData reaching setEncryptedData.  vault.lockVault() clears currentUsername
\* and saveData reads it after `await encrypt(...)`: a save that was past that
\* await at the lock writes the user's record, one that was not writes under
\* the key of no user (toUserKey = FALSE).
keyChoices(state) == IF state = "locked" THEN BOOLEAN ELSE {TRUE}

saveData(v, state, items, toUserKey) ==
    [v EXCEPT !.focusItems = IF toUserKey THEN items ELSE @,
              !.writtenWhileLocked = @ \/ state = "locked"]

\* the store operations that drop the customer's focus item
RemovalOps == {"removeFromFocus", "deleteCustomer"}

\* a store write between its read of get().focusItems and its set({focusItems}):
\* `next` is what the caller does once the write has landed
pendingSave(op, items, next, t, live) ==
    [op |-> op, focusItems |-> items, next |-> next, time |-> t, live |-> live]

removeAt(seq, i) == SubSeq(seq, 1, i - 1) \o SubSeq(seq, i + 1, Len(seq))

----------------------------------------------------------------------------
(* Reminders.  A pending timeout is a record [id, armedAt, delay, origin]:   *)
(* the handle setTimeout returned, Date.now() when it was armed, the delay   *)
(* it was armed with, and who armed it ("drawer" or "restore").  It expires  *)
(* once Date.now() >= armedAt + delay.  An entry of activeReminders holds a  *)
(* cancel function: `cancels` is the handle it clears, 0 when it clears      *)
(* nothing (the `() => {}` of an immediate trigger, or a timeout that has    *)
(* fired already).                                                           *)

\* bound on the timeouts pending at once
MaxTimers == 2

\* activeReminders.has(customerId) is false
NoReminder == [present |-> FALSE, cancels |-> 0]

\* nothing armed, fired or notified yet; `last` is what became of the reminder
\* armed most recently: "none" | "armed" | "fired" | "cancelled"; `loaded` is
\* the focus item refreshData read from the vault at the last unlock
NoRemLog == [fired |-> 0, notified |-> 0, last |-> "none", loaded |-> NoFocusItem]

\* getMillisecondsUntil: Math.max(0, scheduledTime.getTime() - Date.now())
getMillisecondsUntil(scheduledTime, now) ==
    IF scheduledTime - now > 0 THEN scheduledTime - now ELSE 0

\* the handle setTimeout returns: one that no pending timeout has
newTimeoutId(tms) ==
    CHOOSE i \in 1..(Cardinality(tms) + 1) :
        /\ \A t \in tms : t.id # i
        /\ \A j \in 1..(i - 1) : \E t \in tms : t.id = j

\* setReminder of services/scheduling (createReminderTimeout in the store): an
\* instant already reached triggers at once, without notification and without
\* timeout; otherwise a timeout is armed.  `cancels` is what the returned
\* cancel function clears.
setReminder(tms, scheduledTime, now, origin) ==
    LET msUntil == getMillisecondsUntil(scheduledTime, now)
        timeoutId == newTimeoutId(tms)
    IN  IF msUntil <= 0
        THEN [timers |-> tms, cancels |-> 0, triggered |-> TRUE]
        ELSE [timers |-> tms \cup {[id |-> timeoutId, armedAt |-> now,
                                    delay |-> msUntil, origin |-> origin]},
              cancels |-> timeoutId, triggered |-> FALSE]

\* clearTimeout(timeoutId)
clearTimeout(tms, timeoutId) == {t \in tms : t.id # timeoutId}

\* the store's setReminder with the existing entry left running
storeSetReminderStacking(entry, tms, cancels) ==
    [entry |-> [present |-> TRUE, cancels |-> cancels], timers |-> tms]

\* the store's setReminder(customerId, cancel): cancel the existing reminder if
\* any, then register the new cancel function
storeSetReminder(entry, tms, cancels) ==
    [entry |-> [present |-> TRUE, cancels |-> cancels],
     timers |-> IF entry.present THEN clearTimeout(tms, entry.cancels) ELSE tms]

\* the store's clearReminder with the entry deleted but its timeout left pending
clearReminderKeepingTimer(entry, tms) ==
    [entry |-> NoReminder, timers |-> tms]

\* the store's clearReminder(customerId)
clearReminder(entry, tms) ==
    IF entry.present
    THEN [entry |-> NoReminder, timers |-> clearTimeout(tms, entry.cancels)]
    ELSE [entry |-> entry, timers |-> tms]

\* restoreReminders without the clean-up of reached instants: every flagged
\* item is handed to createReminderTimeout, which triggers a reached one at once
restoreRemindersArmingAll(item, entry, tms, now) ==
    LET scheduledTime == IF item.isTimeConfirmed /\ item.confirmedScheduledTime # 0
                         THEN item.confirmedScheduledTime
                         ELSE item.scheduledTime
        created == setReminder(tms, scheduledTime, now, "restore")
    IN  IF ~item.present \/ ~item.reminderSet \/ scheduledTime = 0 \/ entry.present
        THEN [focusItems |-> item, entry |-> entry, timers |-> tms,
              armed |-> FALSE, triggered |-> FALSE]
        ELSE [focusItems |-> item,
              entry |-> [present |-> TRUE, cancels |-> created.cancels],
              timers |-> created.timers,
              armed |-> TRUE, triggered |-> created.triggered]

\* restoreReminders, for the one focus item of the model: an item whose
\* reminder instant is reached has its flag cleaned up, one whose instant is
\* still ahead gets a timeout unless the map has an entry already
restoreReminders(item, entry, tms, now) ==
    LET scheduledTime == IF item.isTimeConfirmed /\ item.confirmedScheduledTime # 0
                         THEN item.confirmedScheduledTime
                         ELSE item.scheduledTime
        untouched == [focusItems |-> item, entry |-> entry, timers |-> tms,
                      armed |-> FALSE, triggered |-> FALSE]
        created == setReminder(tms, scheduledTime, now, "restore")
    IN  IF ~item.present \/ ~item.reminderSet \/ scheduledTime = 0 THEN untouched
        ELSE IF scheduledTime <= now
        THEN [untouched EXCEPT !.focusItems = reminderDoneUpdates(item)]
        ELSE IF entry.present THEN untouched
        ELSE [focusItems |-> item,
              entry |-> [present |-> TRUE, cancels |-> created.cancels],
              timers |-> created.timers,
              armed |-> TRUE, triggered |-> created.triggered]

\* the timeouts that have expired
expired(tms, now) == {t \in tms : now >= t.armedAt + t.delay}

----------------------------------------------------------------------------
(* Effects of CustomerDetailDrawer.  A render state r bundles the useState   *)
(* cells with the outstanding promises and with counts of what the step      *)
(* invoked.                                                                  *)

hasFocusCache(cust, item) ==
    /\ item.present
    /\ item.crmNotesHash = hashString(cust.crmNotes)
    /\ item.extractedPreferences.present

hasLocalCache(cust, d) ==
    d.extractedPrefsHash = hashString(cust.crmNotes) /\ d.extractedPrefs.present

\* the cleanup `() => { cancelled = true; }` of the previous run of the effect
keepAll(inFlight) == inFlight

cancelAll(inFlight) ==
    [i \in 1..Len(inFlight) |-> [inFlight[i] EXCEPT !.cancelled = TRUE]]

\* the loadSchedule effect: cleanup of the previous run, then the body
loadScheduleEffect(r, cust, profile, item, k) ==
    LET cleaned == [r EXCEPT !.schedInFlight = cancelAll(r.schedInFlight)]
        prefsToUse == IF r.drawer.extractedPrefs.present THEN r.drawer.extractedPrefs
                      ELSE item.extractedPreferences
    IN  IF isTimeConfirmedOf(item)
        THEN [cleaned EXCEPT !.drawer.isLoadingSchedule = FALSE]
        ELSE IF /\ cust.crmNotes # << >>
                /\ ~hasFocusCache(cust, item)
                /\ ~hasLocalCache(cust, r.drawer)
        THEN [cleaned EXCEPT !.drawer.isLoadingSchedule = TRUE]
        ELSE [cleaned EXCEPT
                 !.schedInFlight = Append(@,
                     [rec |-> drawerRecommendations[cust][profile.currentTimezone][prefsToUse][k],
                      usedPrefs |-> prefsToUse.present,
                      cancelled |-> FALSE,
                      sawConfirmed |-> FALSE]),
                 !.full = @ + 1]

\* the extractPrefs effect
extractPrefsEffect(r, cust, item) ==
    LET currentHash == hashString(cust.crmNotes)
    IN  IF cust.crmNotes = << >> THEN r
        ELSE IF isTimeConfirmedOf(item) THEN r
        ELSE IF hasFocusCache(cust, item)
        THEN [r EXCEPT !.drawer.extractedPrefs = item.extractedPreferences,
                       !.drawer.extractedPrefsHash = currentHash]
        ELSE IF hasLocalCache(cust, r.drawer) THEN r
        ELSE [r EXCEPT
                 !.extractInFlight = Append(@,
                     [hash |-> currentHash, hadFocusItem |-> item.present,
                      live |-> TRUE]),
                 !.extracts = @ + 1]

\* One commit: the effects whose dependencies changed run against the render's
\* state; if they changed extractedPrefs or extractedPrefsHash, React renders
\* again and the effects depending on those run once more.
render(r, runLoad, runExtract, cust, profile, item, k) ==
    IF ~r.drawer.open THEN r
    ELSE LET r1 == IF runLoad THEN loadScheduleEffect(r, cust, profile, item, k) ELSE r
             r2 == IF runExtract THEN extractPrefsEffect(r1, cust, item) ELSE r1
             prefsChanged == r2.drawer.extractedPrefs # r.drawer.extractedPrefs
             hashChanged == r2.drawer.extractedPrefsHash # r.drawer.extractedPrefsHash
             r3 == IF prefsChanged
                   THEN loadScheduleEffect(r2, cust, profile, item, k) ELSE r2
         IN  IF prefsChanged \/ hashChanged
             THEN extractPrefsEffect(r3, cust, item) ELSE r3

\* the render state at the start of a step
current ==
    [drawer |-> drawer, schedInFlight |-> schedInFlight,
     extractInFlight |-> extractInFlight, sync |-> FALSE, full |-> 0, extracts |-> 0]

\* The step ends in render state r: the cells, the promises, and the record of
\* what the step did.  `external` tells a step of the environment (the user, the
\* clock) from the settling of a promise or timer; `landed` names the store
\* write that landed, if one did; `arrival` tells what became of a result of
\* getNextAvailableWindow that arrived, or that extractPreferences resolved in
\* the mounted drawer ("extracted").  An outstanding computation is marked
\* sawConfirmed once the focus item is confirmed while it is outstanding.
commit(r, external, landed, confirmedAtSync, notesChanged, arrival) ==
    /\ external => obs.events < obs.budget
    /\ Len(r.schedInFlight) <= MaxSchedInFlight
    /\ Len(r.extractInFlight) <= MaxExtractInFlight
    /\ drawer' = r.drawer
    /\ schedInFlight' =
           [i \in 1..Len(r.schedInFlight) |->
               [r.schedInFlight[i] EXCEPT
                   !.sawConfirmed = @ \/ isTimeConfirmedOf(focusItems')]]
    /\ extractInFlight' = r.extractInFlight
    /\ obs' = [events |-> IF external THEN obs.events + 1 ELSE obs.events,
               budget |-> obs.budget,
               landed |-> landed,
               sync |-> r.sync,
               full |-> r.full,
               pipelineWhileConfirmed |->
                   \/ (r.sync /\ confirmedAtSync)
                   \/ (r.full > 0 /\ isTimeConfirmedOf(focusItems')),
               arrival |-> arrival,
               extractCalls |->
                   LET base == IF notesChanged THEN 0 ELSE obs.extractCalls
                   IN  IF base + r.extracts > MaxExtractCalls THEN MaxExtractCalls
                       ELSE base + r.extracts]

----------------------------------------------------------------------------
(* The steps *)

\* while the drawer is exercised, no call of the scheduling service is observed
SchedIdle ==
    /\ sNow = ClockValues[1]
    /\ sCustomer = [timezone |-> 0, preferredHours |-> NoHours]
    /\ sUserTz = 0
    /\ sSysTz = 0
    /\ sPrefs = NoPrefs
    /\ sUserHours = NoHours
    /\ sHolidays = {}
    /\ sPc = "idle"
    /\ sVariant = "none"
    /\ sThrown = "none"
    /\ sRec = NoRec
    /\ sLookups = 0

NoObs ==
    [events |-> 0, budget |-> MaxEvents, landed |-> "none", sync |-> FALSE, full |-> 0, pipelineWhileConfirmed |-> FALSE,
     arrival |-> "none", extractCalls |-> 0]

\* a send time confirmed in an earlier session: Thu 8 Jan 1970 10:00 UTC
PersistedConfirmedTime == 7 * MinutesPerDay + 10 * MinutesPerHour

\* when it was confirmed: Tue 6 Jan 1970 10:00 UTC
PersistedConfirmedAt == 5 * MinutesPerDay + 10 * MinutesPerHour

\* the focus item the vault may hold for the customer at unlock
PersistedFocusItems ==
    { NoFocusItem, newItem, confirmUpdates(newItem, PersistedConfirmedTime, PersistedConfirmedAt) }

\* the vault has just been unlocked (refreshData): the customer, its focus item
\* if any, no drawer
DrawerInit ==
    /\ clock = 1
    /\ customers \in DrawerCustomers
    /\ userProfile = [currentTimezone |-> -5, workHours |-> InitialWorkHours]
    /\ focusItems \in PersistedFocusItems
    /\ vaultState = "unlocked"
    /\ vault = vaultHolding(customers, focusItems)
    /\ activeReminders = NoReminder
    /\ timers = {}
    /\ remLog = NoRemLog
    /\ pendingSaves = << >>
    /\ drawer = ClosedDrawer
    /\ schedInFlight = << >>
    /\ extractInFlight = << >>
    /\ obs = NoObs

Init == SchedIdle /\ DrawerInit

\* Dashboard selects the customer: CustomerDetailDrawer mounts, its useState
\* initialisers run, then both effects
OpenDrawer ==
    /\ customers.present
    /\ ~drawer.open
    /\ LET mounted ==
               [open |-> TRUE,
                scheduleRec |-> getNextAvailableWindowSync(customers,
                                    userProfile.currentTimezone, userProfile.workHours,
                                    ClockValues[clock]),
                isLoadingSchedule |-> TRUE,
                extractedPrefs |-> focusItems.extractedPreferences,
                extractedPrefsHash |-> focusItems.crmNotesHash,
                isEditingTime |-> FALSE,
                customDateTime |-> NoCustomDateTime]
           r == [current EXCEPT !.drawer = mounted, !.sync = TRUE]
       IN  /\ UNCHANGED focusItems
           /\ commit(render(r, TRUE, TRUE, customers, userProfile, focusItems,
                            clock),
                     TRUE, "none", isTimeConfirmedOf(focusItems), FALSE, "none")
    /\ UNCHANGED <<clock, customers, userProfile, vaultState, vault, activeReminders,
                   timers, remLog, pendingSaves, schedVars>>

\* onClose: the component unmounts, the effect cleanup runs; promises already
\* started settle later against the unmounted instance
CloseDrawer ==
    /\ drawer.open
    /\ UNCHANGED focusItems
    /\ commit([current EXCEPT
                  !.drawer = ClosedDrawer,
                  !.schedInFlight = cancelAll(schedInFlight),
                  !.extractInFlight =
                      [i \in 1..Len(extractInFlight) |->
                          [extractInFlight[i] EXCEPT !.live = FALSE]]],
              TRUE, "none", FALSE, FALSE, "none")
    /\ pendingSaves' = [i \in 1..Len(pendingSaves) |->
                           [pendingSaves[i] EXCEPT !.live = FALSE]]
    /\ UNCHANGED <<clock, customers, userProfile, vaultState, vault, activeReminders,
                   timers, remLog, schedVars>>

\* updateCustomer with new notes (or the same): a new Customer object
EditCustomer ==
    /\ customers.present
    /\ \E notes \in NotesSet :
          /\ customers' = [customers EXCEPT !.crmNotes = notes]
          /\ vault' = [vault EXCEPT !.customers = customers']
          /\ UNCHANGED focusItems
          /\ commit(render(current, TRUE, notes # customers.crmNotes, customers',
                           userProfile, focusItems, clock),
                    TRUE, "none", FALSE, notes # customers.crmNotes, "none")
    /\ UNCHANGED <<clock, userProfile, vaultState, activeReminders, timers, remLog, pendingSaves,
                   schedVars>>

\* setCurrentTimezone (travel mode)
SetCurrentTimezone ==
    /\ \E tz \in UserTimezones :
          /\ tz # userProfile.currentTimezone
          /\ userProfile' = [userProfile EXCEPT !.currentTimezone = tz]
    /\ UNCHANGED focusItems
    /\ commit(render(current, TRUE, FALSE, customers, userProfile', focusItems,
                     clock),
              TRUE, "none", FALSE, FALSE, "none")
    /\ UNCHANGED <<clock, customers, vaultState, vault, activeReminders, timers, remLog, pendingSaves,
                   schedVars>>

\* time passes
Tick ==
    /\ clock < Len(ClockValues)
    /\ clock' = clock + 1
    /\ UNCHANGED focusItems
    /\ commit(current, TRUE, "none", FALSE, FALSE, "none")
    /\ UNCHANGED <<customers, userProfile, vaultState, vault, activeReminders,
                   timers, remLog, pendingSaves, schedVars>>

\* what becomes of the arriving result of outstanding computation e
arrivalOf(e) ==
    IF e.cancelled
    THEN (IF e.sawConfirmed THEN "discardedAfterConfirm" ELSE "discarded")
    ELSE (IF e.sawConfirmed THEN "storedAfterConfirm" ELSE "stored")

\* the promise of getNextAvailableWindow resolves: `if (!cancelled)` guards
\* setScheduleRec and setIsLoadingSchedule(false)
ScheduleArrives ==
    /\ \E i \in 1..Len(schedInFlight) :
          LET e == schedInFlight[i]
              rest == [current EXCEPT !.schedInFlight = removeAt(schedInFlight, i)]
          IN  /\ UNCHANGED focusItems
              /\ commit(IF e.cancelled THEN rest
                        ELSE [rest EXCEPT !.drawer.scheduleRec = e.rec,
                                          !.drawer.isLoadingSchedule = FALSE],
                        FALSE, "none", FALSE, FALSE,
                        arrivalOf(e))
    /\ UNCHANGED <<clock, customers, userProfile, vaultState, vault, activeReminders,
                   timers, remLog, pendingSaves, schedVars>>

\* extractPreferences resolves: both setters, then updateFocusItem when the
\* closure's focusItem was defined
ExtractSucceeds ==
    /\ \E i \in 1..Len(extractInFlight), prefs \in ExtractionResults :
          LET e == extractInFlight[i]
              rest == [current EXCEPT !.extractInFlight = removeAt(extractInFlight, i)]
              settled == IF e.live
                     THEN [rest EXCEPT !.drawer.extractedPrefs = prefs,
                                       !.drawer.extractedPrefsHash = e.hash]
                     ELSE rest
          IN  /\ pendingSaves' =
                     IF e.hadFocusItem
                     THEN Append(pendingSaves,
                              pendingSave("preferences", preferenceUpdates(focusItems, prefs, e.hash),
                                          "none", 0, FALSE))
                     ELSE pendingSaves
              /\ Len(pendingSaves') <= MaxPendingSaves
              /\ UNCHANGED focusItems
              /\ commit(render(settled, e.live, e.live, customers, userProfile, focusItems,
                               clock),
                        FALSE, "none", FALSE, FALSE,
                        IF e.live THEN "extracted" ELSE "none")
    /\ UNCHANGED <<clock, customers, userProfile, vaultState, vault, activeReminders,
                   timers, remLog, schedVars>>

\* extractPreferences rejects (error or timeout): the catch block
ExtractFails ==
    /\ \E i \in 1..Len(extractInFlight) :
          LET e == extractInFlight[i]
              rest == [current EXCEPT !.extractInFlight = removeAt(extractInFlight, i)]
              settled == IF e.live
                     THEN [rest EXCEPT !.drawer.extractedPrefs = NoPrefs,
                                       !.drawer.extractedPrefsHash = e.hash]
                     ELSE rest
              prefsChanged == settled.drawer.extractedPrefs # drawer.extractedPrefs
              hashChanged == settled.drawer.extractedPrefsHash # drawer.extractedPrefsHash
          IN  /\ UNCHANGED focusItems
              /\ commit(render(settled, prefsChanged, prefsChanged \/ hashChanged,
                               customers, userProfile, focusItems, clock),
                        FALSE, "none", FALSE, FALSE, "none")
    /\ UNCHANGED <<clock, customers, userProfile, vaultState, vault, activeReminders,
                   timers, remLog, pendingSaves, schedVars>>

\* Dashboard's "add to focus": addToFocus reads the store, awaits the vault
\* save, then sets the store
AddToFocus ==
    /\ customers.present
    /\ ~focusItems.present
    /\ Len(pendingSaves) < MaxPendingSaves
    /\ pendingSaves' = Append(pendingSaves, pendingSave("addToFocus", newItem, "none", 0, FALSE))
    /\ UNCHANGED focusItems
    /\ commit(current, TRUE, "none", FALSE, FALSE, "none")
    /\ UNCHANGED <<clock, customers, userProfile, vaultState, vault, activeReminders,
                   timers, remLog, schedVars>>

\* handleConfirmSendTime up to its first pending await.  The plain Confirm
\* button is disabled while showScheduleLoading; the one of the edit row is not.
ConfirmSendTime ==
    /\ drawer.open
    /\ ~isTimeConfirmedOf(focusItems)
    /\ drawer.isEditingTime \/ ~drawer.isLoadingSchedule
    /\ Len(pendingSaves) < MaxPendingSaves
    /\ LET t == effectiveSendTime(drawer, focusItems)
       IN  pendingSaves' =
               Append(pendingSaves,
                      IF focusItems.present
                      THEN pendingSave("confirm",
                                       confirmUpdates(focusItems, t, ClockValues[clock]),
                                       "endEdit", 0, TRUE)
                      ELSE pendingSave("addToFocus", newItem, "confirm", t, TRUE))
    /\ UNCHANGED focusItems
    /\ commit(current, TRUE, "none", FALSE, FALSE, "none")
    /\ UNCHANGED <<clock, customers, userProfile, vaultState, vault, activeReminders,
                   timers, remLog, schedVars>>

\* handleUnconfirmSendTime up to its pending await ("Change" is shown only for
\* a confirmed time, so ensureFocusItem returns at once)
UnconfirmSendTime ==
    /\ drawer.open
    /\ isTimeConfirmedOf(focusItems)
    /\ Len(pendingSaves) < MaxPendingSaves
    /\ pendingSaves' = Append(pendingSaves,
                              pendingSave("unconfirm", unconfirmUpdates(focusItems), "none", 0, FALSE))
    /\ UNCHANGED focusItems
    /\ commit(current, TRUE, "none", FALSE, FALSE, "none")
    /\ UNCHANGED <<clock, customers, userProfile, vaultState, vault, activeReminders,
                   timers, remLog, schedVars>>

\* vault.saveFocusItems resolves: set({focusItems}) with the array computed
\* before the await, then the caller's continuation, then the re-render
FinishSave ==
    /\ \E i \in 1..Len(pendingSaves) :
          LET p == pendingSaves[i]
              rest == removeAt(pendingSaves, i)
              itemChanged == p.focusItems.present \/ focusItems.present
              after == IF p.next = "endEdit" /\ p.live
                       THEN [current EXCEPT !.drawer.isEditingTime = FALSE]
                       ELSE current
          IN  /\ p.op \notin RemovalOps \cup {"persist"}
              /\ \E toUserKey \in keyChoices(vaultState) :
                    vault' = saveData(vault, vaultState, p.focusItems, toUserKey)
              /\ focusItems' = p.focusItems
              /\ pendingSaves' =
                     IF p.next = "confirm" /\ vaultState = "unlocked"
                     THEN Append(rest, pendingSave("confirm",
                                     confirmUpdates(p.focusItems, p.time, ClockValues[clock]),
                                     "endEdit", 0, p.live))
                     ELSE rest
              /\ commit(render(after, itemChanged, itemChanged, customers, userProfile,
                               p.focusItems, clock),
                        FALSE, p.op, FALSE, FALSE, "none")
    /\ UNCHANGED <<clock, customers, userProfile, vaultState, activeReminders,
                   timers, remLog, schedVars>>

\* handleSetReminder ("Set Reminder" is shown when isTimeConfirmed && !hasReminder):
\* setReminder of services/scheduling (an instant already reached runs onTrigger
\* at once), then the store's setReminder, then updateFocusItem
SetReminder ==
    /\ drawer.open
    /\ isTimeConfirmedOf(focusItems)
    /\ ~activeReminders.present
    /\ LET t == effectiveSendTime(drawer, focusItems)
           created == setReminder(timers, t, ClockValues[clock], "drawer")
           stored == storeSetReminder(activeReminders, created.timers, created.cancels)
           triggered == IF created.triggered
                        THEN Append(pendingSaves,
                                 pendingSave("reminderDone", reminderDoneUpdates(focusItems), "none", 0, FALSE))
                        ELSE pendingSaves
       IN  /\ timers' = stored.timers
           /\ activeReminders' = stored.entry
           /\ remLog' = IF created.triggered
                        THEN [remLog EXCEPT !.fired = @ + 1, !.last = "fired"]
                        ELSE [remLog EXCEPT !.last = "armed"]
           /\ pendingSaves' = Append(triggered,
                                  pendingSave("reminder", reminderUpdates(focusItems, t), "none", 0, FALSE))
    /\ Len(pendingSaves') <= MaxPendingSaves
    /\ Cardinality(timers') <= MaxTimers
    /\ UNCHANGED focusItems
    /\ commit(current, TRUE, "none", FALSE, FALSE, "none")
    /\ UNCHANGED <<clock, customers, userProfile, vaultState, vault, schedVars>>

\* a setTimeout of setReminder expires: showNotification, then onTrigger.  The
\* drawer's onTrigger is updateFocusItem({reminderSet: false}); the one of
\* restoreReminders sets the store at once (its vault save is not awaited) and
\* deletes the customer's entry of activeReminders.
ReminderFires ==
    /\ \E t \in expired(timers, ClockValues[clock]) :
          /\ timers' = timers \ {t}
          /\ remLog' = [remLog EXCEPT !.fired = @ + 1, !.notified = @ + 1,
                                      !.last = "fired"]
          /\ IF t.origin = "drawer"
             THEN /\ Len(pendingSaves) < MaxPendingSaves
                  /\ pendingSaves' =
                         Append(pendingSaves,
                                pendingSave("reminderDone", reminderDoneUpdates(focusItems),
                                            "none", 0, FALSE))
                  /\ activeReminders' =
                         IF activeReminders.cancels = t.id
                         THEN [activeReminders EXCEPT !.cancels = 0]
                         ELSE activeReminders
                  /\ UNCHANGED focusItems
                  /\ commit(current, FALSE, "none", FALSE, FALSE, "none")
             ELSE /\ focusItems' = reminderDoneUpdates(focusItems)
                  /\ activeReminders' = NoReminder
                  /\ Len(pendingSaves) < MaxPendingSaves
                  /\ pendingSaves' =
                         Append(pendingSaves,
                                pendingSave("persist", focusItems', "none", 0, FALSE))
                  /\ commit(render(current, focusItems.present, focusItems.present,
                                   customers, userProfile, focusItems', clock),
                            FALSE, "restoreTrigger", FALSE, FALSE, "none")
    /\ UNCHANGED <<clock, customers, userProfile, vaultState, vault, schedVars>>

\* handleStartEditTime
StartEditTime ==
    /\ drawer.open
    /\ ~isTimeConfirmedOf(focusItems)
    /\ ~drawer.isEditingTime
    /\ UNCHANGED focusItems
    /\ commit([current EXCEPT
                  !.drawer.customDateTime =
                      formatDateTimeLocal(effectiveSendTime(drawer, focusItems)),
                  !.drawer.isEditingTime = TRUE],
              TRUE, "none", FALSE, FALSE, "none")
    /\ UNCHANGED <<clock, customers, userProfile, vaultState, vault, activeReminders,
                   timers, remLog, pendingSaves, schedVars>>

\* what the user types into the datetime-local input: Mon 12 Jan 1970 15:00 on
\* the browser's wall clock
CustomDateTimeInputs == {11 * MinutesPerDay + 15 * MinutesPerHour}

\* the input's onChange while the send time is being edited
ChangeCustomDateTime ==
    /\ drawer.open
    /\ drawer.isEditingTime
    /\ ~isTimeConfirmedOf(focusItems)
    /\ UNCHANGED focusItems
    /\ \E local \in CustomDateTimeInputs :
          /\ drawer.customDateTime # [set |-> TRUE, local |-> local]
          /\ commit([current EXCEPT
                        !.drawer.customDateTime = [set |-> TRUE, local |-> local]],
                    TRUE, "none", FALSE, FALSE, "none")
    /\ UNCHANGED <<clock, customers, userProfile, vaultState, vault, activeReminders,
                   timers, remLog, pendingSaves, schedVars>>

\* handleCancelEditTime
CancelEditTime ==
    /\ drawer.open
    /\ drawer.isEditingTime
    /\ ~isTimeConfirmedOf(focusItems)
    /\ UNCHANGED focusItems
    /\ commit([current EXCEPT !.drawer.customDateTime = NoCustomDateTime,
                              !.drawer.isEditingTime = FALSE],
              TRUE, "none", FALSE, FALSE, "none")
    /\ UNCHANGED <<clock, customers, userProfile, vaultState, vault, activeReminders,
                   timers, remLog, pendingSaves, schedVars>>

Next ==
    \/ OpenDrawer
    \/ CloseDrawer
    \/ EditCustomer
    \/ SetCurrentTimezone
    \/ Tick
    \/ ScheduleArrives
    \/ ExtractSucceeds
    \/ ExtractFails
    \/ AddToFocus
    \/ ConfirmSendTime
    \/ UnconfirmSendTime
    \/ FinishSave
    \/ SetReminder
    \/ ReminderFires
    \/ StartEditTime
    \/ ChangeCustomDateTime
    \/ CancelEditTime

Spec == Init /\ [][Next]_vars

----------------------------------------------------------------------------
(* C1.  A confirmed send time is locked *)

\* C1: once the focus item is confirmed with confirmedScheduledTime = T, no
\* step other than the landing of a write issued by handleUnconfirmSendTime (or
\* by a further handleConfirmSendTime) leaves it unconfirmed or with another
\* confirmedScheduledTime; in particular no recomputation trigger does.
C1_ConfirmedTimeIsLocked ==
    [][ (/\ isTimeConfirmedOf(focusItems)
         /\ \/ ~isTimeConfirmedOf(focusItems')
            \/ focusItems'.confirmedScheduledTime # focusItems.confirmedScheduledTime)
        => obs'.landed \in {"unconfirm", "confirm"} ]_vars

----------------------------------------------------------------------------
(* C2.  A result that was under way at confirmation is discarded *)

\* C2: a result of getNextAvailableWindow whose computation was outstanding when
\* the focus item became confirmed is never stored into scheduleRec when it
\* arrives: while the item is confirmed every outstanding computation is
\* cancelled, and the effective send time is the confirmed instant.
C2_InFlightResultIsDiscarded ==
    /\ obs.arrival # "storedAfterConfirm"
    /\ isTimeConfirmedOf(focusItems) =>
          /\ \A i \in 1..Len(schedInFlight) : schedInFlight[i].cancelled
          /\ (drawer.open /\ focusItems.confirmedScheduledTime # 0) =>
                effectiveSendTime(drawer, focusItems) = focusItems.confirmedScheduledTime

\* the result of a computation that was outstanding at confirmation has just
\* arrived in the open drawer of the confirmed item and was dropped: the
\* effective send time is still the confirmed instant
C2_Witness ==
    /\ obs.arrival = "discardedAfterConfirm"
    /\ drawer.open
    /\ isTimeConfirmedOf(focusItems)
    /\ obs.landed = "none"
    /\ effectiveSendTime(drawer, focusItems) = focusItems.confirmedScheduledTime

----------------------------------------------------------------------------
(* C3.  No pipeline invocation while confirmed *)

\* C3: no step invokes getNextAvailableWindowSync or getNextAvailableWindow for
\* the customer while its focus item has isTimeConfirmed = true, the opening of
\* the drawer included.
C3_NoPipelineWhileConfirmed ==
    ~obs.pipelineWhileConfirmed

----------------------------------------------------------------------------
(* C4.  A failed extraction does not block the recommendation *)

\* the extraction of the current notes has failed: the catch block recorded the
\* notes' hash with null preferences
extractionFailed ==
    /\ customers.crmNotes # << >>
    /\ drawer.extractedPrefsHash = hashString(customers.crmNotes)
    /\ ~drawer.extractedPrefs.present

\* no promise, store write or timer is outstanding
quiescent ==
    /\ schedInFlight = << >>
    /\ extractInFlight = << >>
    /\ pendingSaves = << >>
    /\ timers = {}

\* C4: with non-empty notes and an unconfirmed focus item, once extractPreferences
\* has failed and nothing is outstanding any more, the full recommendation has
\* been computed and the schedule has left the loading state.
C4_FailedExtractionDoesNotBlock ==
    (/\ drawer.open
     /\ ~isTimeConfirmedOf(focusItems)
     /\ extractionFailed
     /\ quiescent)
    => ~drawer.isLoadingSchedule

----------------------------------------------------------------------------
(* C5.  One extraction per notes version *)

\* C5: extractPreferences is invoked at most once between two changes of the
\* customer's notes text.
C5_ExtractAtMostOncePerNotes ==
    obs.extractCalls <= 1


----------------------------------------------------------------------------
(* The scheduling service as a state machine: one call per behaviour *)

\* while the scheduling service is exercised on its own, the drawer stays closed
DrawerIdle == DrawerInit /\ customers.crmNotes = << >> /\ focusItems = NoFocusItem

SchedInit ==
    /\ sNow \in NowSet
    /\ \E tz \in CustomerTimezones, ph \in PreferredHoursSet :
          sCustomer = [timezone |-> tz, preferredHours |-> ph]
    /\ sUserTz \in UserTimezones
    /\ sSysTz \in SystemTimezones
    /\ sPrefs \in PrefsSet
    /\ sUserHours \in UserWorkHoursSet
    /\ sHolidays \in HolidaySets
    /\ sPc = "idle"
    /\ sVariant = "none"
    /\ sThrown = "none"
    /\ sRec = NoRec
    /\ sLookups = 0
    /\ DrawerIdle

\* the candidates the call under way generates
sCandidates(variant) ==
    generateCandidates(sNow, sNow, sCustomer.timezone, workStartOf(sCustomer), workEndOf(sCustomer, IF variant = "single" THEN LEGACY_DEFAULT_WORK_END ELSE DEFAULT_WORK_END), MAX_LOOKAHEAD_DAYS)

\* getNextAvailableWindow of the current service runs to completion
CallBatch ==
    /\ sPc = "idle"
    /\ \E thrown \in BOOLEAN :
          /\ sThrown' = (IF thrown THEN "all" ELSE "none")
          /\ sRec' = getNextAvailableWindow(sCustomer, sUserTz, sPrefs, sUserHours,
                                            sNow, sSysTz, sHolidays, thrown)
    /\ sLookups' = batchLookupCount(sCustomer, sNow)
    /\ sVariant' = "batch"
    /\ sPc' = "done"
    /\ UNCHANGED <<sNow, sCustomer, sUserTz, sSysTz, sPrefs, sUserHours, sHolidays,
                   drawerVars>>

\* getNextAvailableWindow of the earlier service runs to completion
CallSingle ==
    /\ sPc = "idle"
    /\ sUserHours = NoHours      \* this entry point takes no userWorkHours
    /\ \E pattern \in ThrowPatterns :
          /\ sThrown' = pattern
          /\ sRec' = getNextAvailableWindowSingle(sCustomer, sUserTz, sPrefs, sNow, sSysTz,
                         sHolidays, throwsAtOf(pattern, Len(sCandidates("single"))))
    /\ sLookups' = singleLookupCount(sCustomer, sNow)
    /\ sVariant' = "single"
    /\ sPc' = "done"
    /\ UNCHANGED <<sNow, sCustomer, sUserTz, sSysTz, sPrefs, sUserHours, sHolidays,
                   drawerVars>>

SchedNext == CallBatch \/ CallSingle

SpecSched == SchedInit /\ [][SchedNext]_vars

----------------------------------------------------------------------------
(* What the finished call worked on, recomputed from its inputs *)

\* the candidates the finished call generated
doneCandidates == sCandidates(sVariant)

\* the valid, scored candidates the finished call ranked
doneValidCandidates ==
    IF sVariant = "single"
    THEN validCandidatesSingle(sCustomer, sUserTz, sPrefs, sNow, sHolidays,
                               throwsAtOf(sThrown, Len(doneCandidates)))
    ELSE validCandidatesBatch(sCustomer, sUserTz, sPrefs, sUserHours, sNow,
                              sHolidays, sThrown = "all")

\* at least one holiday lookup of the finished call threw
someLookupThrew ==
    IF sVariant = "single"
    THEN \E i \in 1..Len(doneCandidates) :
            /\ getDayOfWeekInTimezone(doneCandidates[i], sCustomer.timezone) \notin WEEKEND_DAYS
            /\ throwsAtOf(sThrown, Len(doneCandidates))[i]
    ELSE sThrown = "all" /\ sLookups > 0

\* the recommendation the same entry point returns for the same inputs when the
\* holiday map is empty and no lookup throws
emptyHolidayMapRec ==
    IF sVariant = "single"
    THEN getNextAvailableWindowSingle(sCustomer, sUserTz, sPrefs, sNow, sSysTz, {},
                                      throwsAtOf("none", Len(doneCandidates)))
    ELSE getNextAvailableWindow(sCustomer, sUserTz, sPrefs, sUserHours, sNow, sSysTz,
                                {}, FALSE)

----------------------------------------------------------------------------
(* C6.  Fail-open holiday lookup *)

\* C6: if a holiday lookup throws during getNextAvailableWindow, the returned
\* recommendation equals the one computed for the same inputs with an empty
\* holiday map.
C6_FailOpenEqualsEmptyMap ==
    (sPc = "done" /\ someLookupThrew) => sRec = emptyHolidayMapRec

----------------------------------------------------------------------------
(* C7.  One holiday request per computation *)

\* C7: one call of getNextAvailableWindow issues at most one holiday lookup
\* request, whatever the number of candidates and of distinct dates.
C7_AtMostOneLookup ==
    sPc = "done" => sLookups <= 1

----------------------------------------------------------------------------
(* C8.  Weekends and avoid rules are hard constraints *)

\* the hours an "HH:MM".."HH:MM" window covers, walking forward from its start
\* hour to its end hour around the clock
hoursCovered(window) ==
    LET sh == window.start[1] * 10 + window.start[2]
        eh == window.end[1] * 10 + window.end[2]
    IN  {h \in 0..23 : (h - sh) % 24 < (eh - sh) % 24}

WeekdayCode(dayOfWeek) ==
    CASE dayOfWeek = 0 -> "SUN" [] dayOfWeek = 1 -> "MON" [] dayOfWeek = 2 -> "TUE"
      [] dayOfWeek = 3 -> "WED" [] dayOfWeek = 4 -> "THU" [] dayOfWeek = 5 -> "FRI"
      [] dayOfWeek = 6 -> "SAT"

customerWeekend(t) ==
    WeekdayCode(getDayOfWeekInTimezone(t, sCustomer.timezone)) \in {"SAT", "SUN"}

\* instant t matches an avoid rule of the extracted preferences
matchesAvoidRule(t) ==
    LET date == getDateStringInTimezone(t, sCustomer.timezone)
        hour == getHourInTimezone(t, sCustomer.timezone)
        wd == WeekdayCode(getDayOfWeekInTimezone(t, sCustomer.timezone))
    IN  /\ sPrefs.present
        /\ \/ date \in sPrefs.avoid_dates
           \/ \E i \in 1..Len(sPrefs.avoid_date_ranges) :
                 date \in (sPrefs.avoid_date_ranges[i].start)..(sPrefs.avoid_date_ranges[i].end)
           \/ wd \in sPrefs.avoid_weekdays
           \/ \E i \in 1..Len(sPrefs.avoid_time_windows) :
                 hour \in hoursCovered(sPrefs.avoid_time_windows[i])

\* C8: every generated candidate that falls on a customer-local Saturday or
\* Sunday, or that matches an avoid rule, is marked invalid by isValidCandidate
\* whatever the holiday set and whatever its preference score, and the
\* candidate selected by the ranking is never such a candidate.
C8_WeekendAndAvoidAreHard ==
    sPc = "done" =>
        LET cands == doneCandidates
            workEnd == workEndOf(sCustomer, IF sVariant = "single"
                                            THEN LEGACY_DEFAULT_WORK_END
                                            ELSE DEFAULT_WORK_END)
        IN  /\ \A i \in 1..Len(cands) :
                  (customerWeekend(cands[i]) \/ matchesAvoidRule(cands[i]))
                  => \A hol \in {{}, sHolidays} :
                        ~isValidCandidate(cands[i], sCustomer, sPrefs,
                                          workStartOf(sCustomer), workEnd, hol).valid
            /\ ~sRec.fallback =>
                  /\ ~customerWeekend(sRec.suggestedTime)
                  /\ ~matchesAvoidRule(sRec.suggestedTime)

\* a finished call that selected a candidate although a weekday candidate inside
\* the customer's explicit preferred hours matched an avoid rule
C8_Witness ==
    /\ sPc = "done"
    /\ ~sRec.fallback
    /\ LET cands == doneCandidates
       IN  \E i \in 1..Len(cands) :
              /\ ~customerWeekend(cands[i])
              /\ matchesAvoidRule(cands[i])
              /\ getPreferenceScore(cands[i], sCustomer, sPrefs) >= 100

----------------------------------------------------------------------------
(* C9.  The ranking order *)

\* the lexicographic key of section 4.4: smaller sorts first
rankKey(c) ==
    << IF c.isUserWorkTime THEN 0 ELSE 1,
       0 - c.preferenceScore,
       0 - c.userFriendlinessScore,
       c.time >>

lexLess(k1, k2) ==
    \E i \in 1..4 : k1[i] < k2[i] /\ \A j \in 1..(i - 1) : k1[j] = k2[j]

\* C9: when at least one candidate is valid, the returned instant is that of a
\* valid candidate before which no valid candidate ranks.
C9_ReturnsLexicographicMinimum ==
    sPc = "done" =>
        LET valid == doneValidCandidates
        IN  Len(valid) > 0 =>
               \E i \in 1..Len(valid) :
                   /\ valid[i].time = sRec.suggestedTime
                   /\ ~sRec.fallback
                   /\ \A j \in 1..Len(valid) :
                         ~lexLess(rankKey(valid[j]), rankKey(valid[i]))

\* a finished call whose selection is not the earliest valid candidate: a later
\* one won on sender work time, preference score or friendliness
C9_Witness ==
    /\ sPc = "done"
    /\ ~sRec.fallback
    /\ LET valid == doneValidCandidates
       IN  \E j \in 1..Len(valid) : valid[j].time < sRec.suggestedTime

----------------------------------------------------------------------------
(* C10.  The fallback recommendation *)

customerBusinessDay(day) ==
    WeekdayCode((((day + 3) % 7) + 1) % 7) \notin {"SAT", "SUN"}

\* C10: the fallback is the next customer-local Monday-to-Friday day after
\* today at the customer's local work-start hour, with every flag false.
C10_FallbackIsNextBusinessDay ==
    (sPc = "done" /\ sRec.fallback) =>
        LET today == getDateStringInTimezone(sNow, sCustomer.timezone)
            day == getDateStringInTimezone(sRec.suggestedTime, sCustomer.timezone)
        IN  /\ day > today
            /\ customerBusinessDay(day)
            /\ \A d \in (today + 1)..(day - 1) : ~customerBusinessDay(d)
            /\ toZonedTime(sRec.suggestedTime, sCustomer.timezone)
                 = day * MinutesPerDay + workStartOf(sCustomer) * MinutesPerHour
            /\ ~sRec.isOptimal /\ ~sRec.isWeekend /\ ~sRec.isHoliday
            /\ ~sRec.isUserWorkTime


----------------------------------------------------------------------------
(* The synchronous fast path as a state machine: one call per behaviour *)

\* the instants at which the fast path is called
\* (day 8 = Fri 9 Jan 1970, 9 = Sat, 10 = Sun, 11 = Mon, 12 = Tue)
SyncNowSet ==
    { 8 * MinutesPerDay + 5 * MinutesPerHour + 10,    \* Fri 05:10 UTC
      8 * MinutesPerDay + 11 * MinutesPerHour,        \* Fri 11:00 UTC = Fri 20:00 in UTC+9
      8 * MinutesPerDay + 14 * MinutesPerHour + 50,   \* Fri 14:50 UTC
      8 * MinutesPerDay + 20 * MinutesPerHour + 30,   \* Fri 20:30 UTC = Sat 05:30 in UTC+9
      9 * MinutesPerDay + 9 * MinutesPerHour,         \* Sat 09:00 UTC
      10 * MinutesPerDay + 13 * MinutesPerHour + 5,   \* Sun 13:05 UTC
      10 * MinutesPerDay + 23 * MinutesPerHour,       \* Sun 23:00 UTC = Mon 08:00 in UTC+9
      11 * MinutesPerDay + 7 * MinutesPerHour + 59,   \* Mon 07:59 UTC
      11 * MinutesPerDay + 17 * MinutesPerHour,       \* Mon 17:00 UTC
      12 * MinutesPerDay + 18 * MinutesPerHour + 20 } \* Tue 18:20 UTC

SyncInit ==
    /\ sNow \in SyncNowSet
    /\ \E tz \in CustomerTimezones, ph \in PreferredHoursSet :
          sCustomer = [timezone |-> tz, preferredHours |-> ph]
    /\ sUserTz \in UserTimezones
    /\ sSysTz = 0
    /\ sPrefs = NoPrefs
    /\ sUserHours \in UserWorkHoursSet
    /\ sHolidays = {}
    /\ sPc = "idle"
    /\ sVariant = "none"
    /\ sThrown = "none"
    /\ sRec = NoRec
    /\ sLookups = 0
    /\ DrawerIdle

\* getNextAvailableWindowSync of the earlier service: no userWorkHours argument,
\* USER_WORK_START..USER_WORK_END = 9..18 are the defaults of the current one
getNextAvailableWindowSyncLegacy(customer, userTimezone, now) ==
    syncWindow(customer, userTimezone, NoHours, now, LEGACY_DEFAULT_WORK_END)

\* getNextAvailableWindowSync of the current service returns
CallSync ==
    /\ sPc = "idle"
    /\ sRec' = getNextAvailableWindowSync(sCustomer, sUserTz, sUserHours, sNow)
    /\ sVariant' = "sync"
    /\ sPc' = "done"
    /\ UNCHANGED <<sNow, sCustomer, sUserTz, sSysTz, sPrefs, sUserHours, sHolidays,
                   sThrown, sLookups, drawerVars>>

\* getNextAvailableWindowSync of the earlier service returns
CallSyncLegacy ==
    /\ sPc = "idle"
    /\ sUserHours = NoHours      \* this entry point takes no userWorkHours
    /\ sRec' = getNextAvailableWindowSyncLegacy(sCustomer, sUserTz, sNow)
    /\ sVariant' = "syncLegacy"
    /\ sPc' = "done"
    /\ UNCHANGED <<sNow, sCustomer, sUserTz, sSysTz, sPrefs, sUserHours, sHolidays,
                   sThrown, sLookups, drawerVars>>

SyncNext == CallSync \/ CallSyncLegacy

SpecSync == SyncInit /\ [][SyncNext]_vars

----------------------------------------------------------------------------
(* C11.  The synchronous fast path *)

\* the first Monday strictly after customer-local day `day`
nextMondayAfter(day) ==
    CHOOSE d \in (day + 1)..(day + 7) : WeekdayCode((((d + 3) % 7) + 1) % 7) = "MON"

\* C11: the fast path returns next Monday at work-start when now is a
\* customer-local weekend; work-start today when now is before work-start on a
\* weekday; tomorrow at work-start when now is at or after work-end, or Monday
\* at work-start when tomorrow is a weekend day; and in every case the returned
\* instant is on a customer-local Monday-to-Friday day.
C11_SyncFastPath ==
    (sPc = "done" /\ sVariant \in {"sync", "syncLegacy"}) =>
        LET tz == sCustomer.timezone
            today == getDateStringInTimezone(sNow, tz)
            hour == getHourInTimezone(sNow, tz)
            workStart == workStartOf(sCustomer)
            workEnd == workEndOf(sCustomer, IF sVariant = "syncLegacy"
                                            THEN LEGACY_DEFAULT_WORK_END
                                            ELSE DEFAULT_WORK_END)
            atWorkStart(day) == day * MinutesPerDay + workStart * MinutesPerHour
            returned == toZonedTime(sRec.suggestedTime, tz)
        IN  /\ customerWeekend(sNow) => returned = atWorkStart(nextMondayAfter(today))
            /\ (~customerWeekend(sNow) /\ hour < workStart) => returned = atWorkStart(today)
            /\ (~customerWeekend(sNow) /\ hour >= workStart /\ hour >= workEnd) =>
                  returned = atWorkStart(IF customerBusinessDay(today + 1)
                                         THEN today + 1
                                         ELSE nextMondayAfter(today))
            /\ customerBusinessDay(returned \div MinutesPerDay)


----------------------------------------------------------------------------
(* The store's reminder bookkeeping: unlock, removal and deletion *)

\* bound on the steps of the environment in a behaviour about reminders
MaxReminderEvents == 6

\* the customer the vault holds
PersistedCustomer ==
    [present |-> TRUE, timezone |-> 0, preferredHours |-> NoHours, crmNotes |-> << >>]

\* the focus item the vault may hold for the customer: none, a fresh one, a
\* confirmed one, a confirmed one with its reminder armed in an earlier
\* session, and one unconfirmed again after its reminder was armed
PersistedReminderItems ==
    LET confirmed == confirmUpdates(newItem, PersistedConfirmedTime, PersistedConfirmedAt)
        armed == reminderUpdates(confirmed, PersistedConfirmedTime)
    IN  { NoFocusItem, newItem, confirmed, armed, unconfirmUpdates(armed) }

\* the application starts locked: the store's initial state
RemInit ==
    /\ clock \in 1..Len(ClockValues)
    /\ customers = NoCustomer
    /\ userProfile = [currentTimezone |-> -5, workHours |-> InitialWorkHours]
    /\ focusItems = NoFocusItem
    /\ vaultState = "locked"
    /\ vault \in {vaultHolding(PersistedCustomer, item) : item \in PersistedReminderItems}
    /\ activeReminders = NoReminder
    /\ timers = {}
    /\ remLog = NoRemLog
    /\ pendingSaves = << >>
    /\ drawer = ClosedDrawer
    /\ schedInFlight = << >>
    /\ extractInFlight = << >>
    /\ obs = [NoObs EXCEPT !.budget = MaxReminderEvents]
    /\ SchedIdle

\* unlockVault: refreshData loads customers, focusItems and userProfile from the
\* vault, sets the store, then restoreReminders runs
UnlockVault ==
    /\ vaultState = "locked"
    /\ LET persisted == vault.focusItems
           restored == restoreReminders(persisted, activeReminders, timers,
                                        ClockValues[clock])
       IN  /\ focusItems' = restored.focusItems
           /\ activeReminders' = restored.entry
           /\ timers' = restored.timers
           /\ remLog' = [remLog EXCEPT
                             !.loaded = persisted,
                             !.last = IF restored.armed THEN "armed" ELSE @]
           /\ pendingSaves' =
                  IF restored.focusItems # persisted
                  THEN Append(pendingSaves,
                              pendingSave("persist", restored.focusItems, "none", 0, FALSE))
                  ELSE pendingSaves
    /\ Len(pendingSaves') <= MaxPendingSaves
    /\ customers' = vault.customers
    /\ vaultState' = "unlocked"
    /\ vault' = [vault EXCEPT !.writtenWhileLocked = FALSE]
    /\ commit(current, TRUE, "unlock", FALSE, FALSE, "none")
    /\ UNCHANGED <<clock, userProfile, schedVars>>

\* Dashboard's focus toggle on a customer in focus: removeFromFocus filters the
\* item out, then awaits the vault save (the drawer's backdrop covers the cards)
RemoveFromFocus ==
    /\ customers.present
    /\ ~drawer.open
    /\ focusItems.present
    /\ Len(pendingSaves) < MaxPendingSaves
    /\ pendingSaves' = Append(pendingSaves,
                              pendingSave("removeFromFocus", NoFocusItem, "none", 0, FALSE))
    /\ UNCHANGED focusItems
    /\ commit(current, TRUE, "none", FALSE, FALSE, "none")
    /\ UNCHANGED <<clock, customers, userProfile, vaultState, vault, activeReminders,
                   timers, remLog, schedVars>>

\* the card's delete button: deleteCustomer filters customers and focusItems,
\* then awaits both vault saves
DeleteCustomer ==
    /\ customers.present
    /\ ~drawer.open
    /\ Len(pendingSaves) < MaxPendingSaves
    /\ pendingSaves' = Append(pendingSaves,
                              pendingSave("deleteCustomer", NoFocusItem, "none", 0, FALSE))
    /\ UNCHANGED focusItems
    /\ commit(current, TRUE, "none", FALSE, FALSE, "none")
    /\ UNCHANGED <<clock, customers, userProfile, vaultState, vault, activeReminders,
                   timers, remLog, schedVars>>

\* the saves of removeFromFocus or deleteCustomer resolve: clearReminder, then
\* set with what was filtered before the await; a drawer open on a deleted
\* customer closes itself
FinishRemoval ==
    /\ \E i \in 1..Len(pendingSaves) :
          LET p == pendingSaves[i]
              rest == removeAt(pendingSaves, i)
              cleared == clearReminder(activeReminders, timers)
              deleted == p.op = "deleteCustomer"
              closing == [current EXCEPT
                             !.drawer = ClosedDrawer,
                             !.schedInFlight = cancelAll(schedInFlight),
                             !.extractInFlight =
                                 [j \in 1..Len(extractInFlight) |->
                                     [extractInFlight[j] EXCEPT !.live = FALSE]]]
          IN  /\ p.op \in RemovalOps
              /\ \E toUserKey \in keyChoices(vaultState) :
                    vault' = [saveData(vault, vaultState, p.focusItems, toUserKey)
                                 EXCEPT !.customers =
                                     IF deleted /\ toUserKey THEN NoCustomer ELSE @]
              /\ activeReminders' = cleared.entry
              /\ timers' = cleared.timers
              /\ remLog' = IF cleared.timers # timers
                           THEN [remLog EXCEPT !.last = "cancelled"] ELSE remLog
              /\ focusItems' = p.focusItems
              /\ customers' = IF deleted THEN NoCustomer ELSE customers
              /\ pendingSaves' =
                     IF deleted
                     THEN [j \in 1..Len(rest) |-> [rest[j] EXCEPT !.live = FALSE]]
                     ELSE rest
              /\ commit(IF deleted THEN closing
                        ELSE render(current, focusItems.present, focusItems.present,
                                    customers, userProfile, p.focusItems, clock),
                        FALSE, p.op, FALSE, FALSE, "none")
    /\ UNCHANGED <<clock, userProfile, vaultState, schedVars>>

\* a vault.saveFocusItems that nobody awaits reaches the storage (the trigger
\* callback and the cleanup of restoreReminders set the store first)
PersistCompletes ==
    /\ \E i \in 1..Len(pendingSaves) :
          /\ pendingSaves[i].op = "persist"
          /\ \E toUserKey \in keyChoices(vaultState) :
                vault' = saveData(vault, vaultState, pendingSaves[i].focusItems, toUserKey)
          /\ pendingSaves' = removeAt(pendingSaves, i)
    /\ UNCHANGED focusItems
    /\ commit(current, FALSE, "persist", FALSE, FALSE, "none")
    /\ UNCHANGED <<clock, customers, userProfile, vaultState, activeReminders,
                   timers, remLog, schedVars>>

\* the store's lockVault (the header's "Sign out"; the drawer's backdrop covers
\* the header): vault.lockVault(), every registered cancel function, then the
\* store is emptied; App renders the unlock screen instead of the dashboard
LockVault ==
    /\ vaultState = "unlocked"
    /\ ~drawer.open
    /\ vaultState' = "locked"
    /\ timers' = clearReminder(activeReminders, timers).timers
    /\ activeReminders' = NoReminder
    /\ remLog' = IF timers' # timers THEN [remLog EXCEPT !.last = "cancelled"] ELSE remLog
    /\ customers' = NoCustomer
    /\ focusItems' = NoFocusItem
    /\ commit(current, TRUE, "lock", FALSE, FALSE, "none")
    /\ UNCHANGED <<clock, userProfile, vault, pendingSaves, schedVars>>

RemNext ==
    \/ UnlockVault
    \/ LockVault
    \/ PersistCompletes
    \/ OpenDrawer
    \/ CloseDrawer
    \/ Tick
    \/ ScheduleArrives
    \/ ConfirmSendTime
    \/ UnconfirmSendTime
    \/ FinishSave
    \/ SetReminder
    \/ ReminderFires
    \/ RemoveFromFocus
    \/ DeleteCustomer
    \/ FinishRemoval

SpecRem == RemInit /\ [][RemNext]_vars


----------------------------------------------------------------------------
(* C12.  A fired reminder leaves the relationship without reminder *)

\* no store write is awaiting its save and no timeout is pending
storeQuiescent == pendingSaves = << >> /\ timers = {}

\* C12: once the reminder armed last has fired (by its timeout, or at once
\* because its instant was reached already) and its callback's write has
\* landed, the focus item's reminderSet is false and activeReminders has no
\* entry for the customer.
C12_FiredReminderIsCleared ==
    (remLog.last = "fired" /\ storeQuiescent) =>
        /\ ~focusItems.reminderSet
        /\ ~activeReminders.present

----------------------------------------------------------------------------
(* C13.  One notification per firing *)

\* C13: showNotification has been invoked exactly once for each reminder that
\* has fired, immediate firings included, and never for a cancelled one.
C13_OneNotificationPerFiring ==
    remLog.notified = remLog.fired

----------------------------------------------------------------------------
(* C14.  At most one live timer per customer *)

\* C14: the customer never has two pending timeouts; and arming from any
\* reachable state, by handleSetReminder's calls or by restoreReminders, leaves
\* none of the timeouts that were pending before alongside the new one.
C14_AtMostOneLiveTimer ==
    /\ Cardinality(timers) <= 1
    /\ LET now == ClockValues[clock]
           created == setReminder(timers, now + 1, now, "drawer")
           stored == storeSetReminder(activeReminders, created.timers, created.cancels)
           flagged == reminderUpdates(newItem, now + 1)
           restored == restoreReminders(flagged, activeReminders, timers, now)
       IN  /\ \A t \in timers : t \notin stored.timers
           /\ Cardinality(stored.timers) = 1
           /\ Cardinality(restored.timers) <= 1

\* a timeout is pending, armed by the reminder set last
C14_Witness ==
    /\ Cardinality(timers) = 1
    /\ activeReminders.present
    /\ remLog.last = "armed"

----------------------------------------------------------------------------
(* C15.  Removal and deletion tear the timer down *)

\* C15: when removeFromFocus or deleteCustomer completes, no timeout of the
\* customer is pending any more (so none fires or notifies afterwards) and
\* activeReminders has no entry for the customer.
C15_RemovalCancelsTimer ==
    [][ obs'.landed \in RemovalOps => (timers' = {} /\ ~activeReminders'.present) ]_vars

\* a removal or deletion has just completed and cancelled a pending timeout
C15_Witness ==
    /\ obs.landed \in RemovalOps
    /\ remLog.last = "cancelled"
    /\ timers = {}
    /\ ~activeReminders.present

----------------------------------------------------------------------------
(* C16.  Unconfirming cancels the reminder *)

\* C16: when the write of handleUnconfirmSendTime lands while a timeout armed
\* for the confirmed instant is pending, that timeout is cancelled.
C16_UnconfirmCancelsTimer ==
    [][ (obs'.landed = "unconfirm" /\ timers # {}) => timers' = {} ]_vars

----------------------------------------------------------------------------
(* C17.  Reminders are reconciled at unlock *)

\* the instant restoreReminders takes as the item's reminder instant
reminderTargetOf(item) ==
    IF item.isTimeConfirmed /\ item.confirmedScheduledTime # 0
    THEN item.confirmedScheduledTime
    ELSE item.scheduledTime

\* C17: right after unlock, a loaded item with reminderSet whose instant is not
\* later than now has reminderSet cleared, with no timeout, callback or
\* notification; one whose instant is still ahead keeps reminderSet and has
\* exactly one timeout, armed now with delay = instant - now and registered in
\* activeReminders.
C17_RestoreReconciles ==
    [][ obs'.landed = "unlock" =>
          LET item == remLog'.loaded
              now == ClockValues[clock']
              target == reminderTargetOf(item)
          IN  /\ remLog'.fired = remLog.fired /\ remLog'.notified = remLog.notified
              /\ (item.present /\ item.reminderSet /\ target <= now) =>
                    /\ ~focusItems'.reminderSet
                    /\ timers' = {}
                    /\ ~activeReminders'.present
              /\ (item.present /\ item.reminderSet /\ target > now) =>
                    /\ focusItems'.reminderSet
                    /\ \E t \in timers' :
                          /\ timers' = {t}
                          /\ t.armedAt = now
                          /\ t.delay = target - now
                          /\ activeReminders' = [present |-> TRUE, cancels |-> t.id] ]_vars

\* unlock has just cleaned up a reminder whose instant had passed
C17_Witness ==
    /\ obs.landed = "unlock"
    /\ remLog.loaded.reminderSet
    /\ reminderTargetOf(remLog.loaded) <= ClockValues[clock]
    /\ ~focusItems.reminderSet
    /\ timers = {}

----------------------------------------------------------------------------
(* C18.  Unconfirming clears the confirmation only, and recomputation resumes *)

\* C18: when the write of handleUnconfirmSendTime lands, the focus item in the
\* store has isTimeConfirmed, confirmedScheduledTime and confirmedAt cleared and
\* every other field as it was in the store; and if the drawer is open, that
\* step resumes recomputation: it calls getNextAvailableWindow, or it starts the
\* extraction the notes still need.
C18_UnconfirmClearsOnlyConfirmation ==
    [][ obs'.landed = "unconfirm" =>
          /\ focusItems' = unconfirmUpdates(focusItems)
          /\ drawer'.open =>
                \/ obs'.full > 0
                \/ Len(extractInFlight') > Len(extractInFlight) ]_vars

----------------------------------------------------------------------------
(* C19.  One recomputation per completed extraction *)

\* C19: when extractPreferences resolves for the current notes of an unconfirmed
\* relationship, that step calls getNextAvailableWindow exactly once, and the
\* landing of the preference-cache write the completion issued calls it no
\* further time.
C19_OneRecomputationPerExtraction ==
    [][ /\ (/\ obs'.arrival = "extracted"
            /\ ~isTimeConfirmedOf(focusItems')
            /\ drawer'.extractedPrefsHash = hashString(customers'.crmNotes))
           => obs'.full = 1
        /\ (obs'.landed = "preferences" /\ ~isTimeConfirmedOf(focusItems'))
           => obs'.full = 0 ]_vars

----------------------------------------------------------------------------
(* C20.  The priority order the soft-score weights induce *)

\* the soft-preference dimensions
Dimensions == {"explicitHours", "timeWindows", "dateRanges", "dates", "weekday"}

\* the dimensions instant t matches for the customer `cust` under the finished
\* call's extracted preferences
matchedDimensions(t, cust) ==
    LET hour == getHourInTimezone(t, cust.timezone)
        day == getDateStringInTimezone(t, cust.timezone)
        code == WeekdayCode(getDayOfWeekInTimezone(t, cust.timezone))
    IN  {d \in Dimensions :
            CASE d = "explicitHours" ->
                     /\ cust.preferredHours.set
                     /\ hour >= cust.preferredHours.start
                     /\ hour < cust.preferredHours.end
              [] d = "timeWindows" ->
                     /\ sPrefs.present
                     /\ \E i \in 1..Len(sPrefs.preferred_time_windows) :
                            hour \in hoursCovered(sPrefs.preferred_time_windows[i])
              [] d = "dateRanges" ->
                     /\ sPrefs.present
                     /\ \E i \in 1..Len(sPrefs.preferred_date_ranges) :
                            /\ sPrefs.preferred_date_ranges[i].start <= day
                            /\ day <= sPrefs.preferred_date_ranges[i].end
              [] d = "dates" -> sPrefs.present /\ day \in sPrefs.preferred_dates
              [] d = "weekday" -> sPrefs.present /\ code \in sPrefs.preferred_weekdays}

\* <<d, score>> for every valid candidate that matches dimension d and no
\* other, over the finished call's inputs and each explicit preferred-hours
\* window the customer may have
singleDimensionScores ==
    UNION { LET cust == [sCustomer EXCEPT !.preferredHours = ph]
                scored == validCandidatesBatch(cust, sUserTz, sPrefs, sUserHours, sNow,
                                               sHolidays, FALSE)
            IN  { LET d == CHOOSE e \in matchedDimensions(scored[i].time, cust) : TRUE
                  IN  <<d, scored[i].preferenceScore>> :
                     i \in {k \in 1..Len(scored) :
                               Cardinality(matchedDimensions(scored[k].time, cust)) = 1} }
          : ph \in PreferredHoursSet }

\* position in a priority order given from lowest to highest
rankIn(order, d) == CHOOSE n \in 1..Len(order) : order[n] = d

\* every pair of single-dimension candidates is scored in the given order
scoresFollow(order) ==
    \A p, q \in singleDimensionScores :
        rankIn(order, p[1]) > rankIn(order, q[1]) => p[2] > q[2]

\* C20 as stated: explicit preferred hours > preferred time windows > preferred
\* date ranges > preferred specific dates > preferred weekday; of two valid
\* candidates that each match exactly one dimension, the one matching the
\* higher dimension has the strictly higher preference score.
C20_PriorityOrderAsStated ==
    sPc = "done" =>
        scoresFollow(<<"weekday", "dates", "dateRanges", "timeWindows", "explicitHours">>)

\* C20, amended: the order is explicit preferred hours > preferred time windows
\* > preferred specific dates > preferred date ranges > preferred weekday; of
\* two valid candidates that each match exactly one dimension, the one matching
\* the higher dimension has the strictly higher preference score.
C20_PriorityOrder ==
    sPc = "done" =>
        scoresFollow(<<"weekday", "dateRanges", "dates", "timeWindows", "explicitHours">>)

\* a finished call with a valid candidate for each of the five dimensions alone
C20_Witness ==
    /\ sPc = "done"
    /\ \A d \in Dimensions : \E p \in singleDimensionScores : p[1] = d
    /\ \E p, q \in singleDimensionScores :
          p[1] = "dates" /\ q[1] = "dateRanges" /\ p[2] > q[2]

----------------------------------------------------------------------------
(* C21.  isOptimal *)

\* the sender's work hours the finished call used
senderWorkStart == userWorkStartOf(IF sVariant \in {"batch", "sync"} THEN sUserHours ELSE NoHours)

senderWorkEnd == userWorkEndOf(IF sVariant \in {"batch", "sync"} THEN sUserHours ELSE NoHours)

\* C21: a recommendation returned by getNextAvailableWindow or by
\* getNextAvailableWindowSync has isOptimal only if its instant is within the sender's work hours and the preference
\* score of that instant is strictly positive.
C21_OptimalNeedsPositiveScore ==
    (sPc = "done" /\ sRec.isOptimal) =>
        LET userHour == getHourInTimezone(sRec.suggestedTime, sUserTz)
        IN  /\ userHour >= senderWorkStart
            /\ userHour < senderWorkEnd
            /\ getPreferenceScore(sRec.suggestedTime, sCustomer, sPrefs) > 0

----------------------------------------------------------------------------
(* C22.  The nextBusinessDay label *)

\* customer-local day d is a weekend day or one of the holidays
nonBusinessDay(d) ==
    \/ WeekdayCode((((d + 3) % 7) + 1) % 7) \in {"SAT", "SUN"}
    \/ d \in sHolidays

\* C22: when getNextAvailableWindow selects a candidate, it sets nextBusinessDay
\* only if the chosen customer-local date differs from today's and a weekend
\* day or a holiday lies between today (included) and the chosen day; when the
\* chosen day is the next calendar day and nothing was skipped, there is no
\* label.
C22_LabelOnlyAfterSkip ==
    (sPc = "done" /\ sVariant \in {"batch", "single"} /\ ~sRec.fallback) =>
        LET today == getDateStringInTimezone(sNow, sCustomer.timezone)
            chosen == getDateStringInTimezone(sRec.suggestedTime, sCustomer.timezone)
        IN  sRec.nextBusinessDay # NoLabel =>
                /\ chosen # today
                /\ \E d \in today..(chosen - 1) : nonBusinessDay(d)

----------------------------------------------------------------------------
(* C23.  The default customer work window *)

\* DEFAULT_WORK_END of the availability indicator
AVAILABILITY_DEFAULT_WORK_END == 18

\* C23: for a customer without preferredHours and without extracted
\* preferences, getNextAvailableWindow generates a 17:00 customer-local slot on
\* a weekday that is no holiday and finds it valid, and the end of its default
\* window is the one the availability indicator uses.
C23_DefaultWindowIsNineToEighteen ==
    (/\ sPc = "done"
     /\ sVariant = "batch"
     /\ ~sCustomer.preferredHours.set
     /\ ~sPrefs.present) =>
        /\ workEndOf(sCustomer, DEFAULT_WORK_END) = AVAILABILITY_DEFAULT_WORK_END
        /\ \E i \in 1..Len(doneCandidates) :
              /\ getHourInTimezone(doneCandidates[i], sCustomer.timezone) = 17
              /\ isValidCandidate(doneCandidates[i], sCustomer, sPrefs,
                                  workStartOf(sCustomer),
                                  workEndOf(sCustomer, DEFAULT_WORK_END), sHolidays).valid

----------------------------------------------------------------------------
(* C24.  A longer lookahead horizon only adds later candidates *)

\* the short horizons that are compared with each other and with
\* MAX_LOOKAHEAD_DAYS
MaxHorizon == 3

\* what the finished call's evaluation loop works on when the horizon is h days
candidatesWithin(h) ==
    generateCandidates(sNow, sNow, sCustomer.timezone, workStartOf(sCustomer),
                       workEndOf(sCustomer, DEFAULT_WORK_END), h)

validWithin(h) ==
    LET candidates == candidatesWithin(h)
        holidayDates == batchHolidayDates(candidates, sCustomer.timezone, sHolidays,
                                          sThrown = "all")
    IN  validCandidatesOf(candidates, [i \in 1..Len(candidates) |-> holidayDates],
                          sCustomer, sUserTz, sPrefs, workStartOf(sCustomer),
                          workEndOf(sCustomer, DEFAULT_WORK_END),
                          userWorkStartOf(sUserHours), userWorkEndOf(sUserHours))

\* the candidate selected with horizon h (there is a valid one)
bestWithin(h) ==
    IF h = MAX_LOOKAHEAD_DAYS
    THEN LET valid == doneValidCandidates
         IN  valid[CHOOSE i \in 1..Len(valid) : valid[i].time = sRec.suggestedTime]
    ELSE sortCandidates(validWithin(h))[1]

\* C24: for the inputs of a finished call of getNextAvailableWindow and horizons
\* h < h2, the candidates generated with h are a prefix of those generated with
\* h2, every added candidate is later than all the previous ones, and when a
\* candidate is selected with h, one is selected with h2 too and it is the same
\* or sorts strictly before it under the ranking comparator.
C24_HorizonOnlyAddsLater ==
    (sPc = "done" /\ sVariant = "batch") =>
        \A h \in 1..MaxHorizon :
            \A h2 \in ((h + 1)..MaxHorizon) \cup {MAX_LOOKAHEAD_DAYS} :
                LET short == candidatesWithin(h)
                    long == candidatesWithin(h2)
                IN  /\ Len(short) <= Len(long)
                    /\ SubSeq(long, 1, Len(short)) = short
                    /\ \A i \in (Len(short) + 1)..Len(long) :
                          \A j \in 1..Len(short) : long[i] > short[j]
                    /\ Len(validWithin(h)) > 0 =>
                          /\ Len(validWithin(h2)) > 0
                          /\ \/ bestWithin(h2) = bestWithin(h)
                             \/ compareCandidates(bestWithin(h2), bestWithin(h)) < 0

\* a finished call for which the longer horizon adds candidates and changes the
\* selection: the candidate selected within MAX_LOOKAHEAD_DAYS is later than
\* the one selected within one day and sorts strictly before it
C24_Witness ==
    /\ sPc = "done"
    /\ sVariant = "batch"
    /\ Len(validWithin(1)) > 0
    /\ ~sRec.fallback
    /\ Len(candidatesWithin(MAX_LOOKAHEAD_DAYS)) > Len(candidatesWithin(1))
    /\ bestWithin(MAX_LOOKAHEAD_DAYS).time > bestWithin(1).time
    /\ compareCandidates(bestWithin(MAX_LOOKAHEAD_DAYS), bestWithin(1)) < 0

----------------------------------------------------------------------------
(* C25.  Overlapping updateFocusItem calls *)

\* the fields of a FocusItem that the model follows
FocusItemFields == DOMAIN NoFocusItem

\* the fields named in the `updates` argument of each caller of updateFocusItem
updatedFields(op) ==
    CASE op = "confirm" ->
             {"isTimeConfirmed", "confirmedScheduledTime", "confirmedAt", "scheduledTime"}
      [] op = "unconfirm" -> {"isTimeConfirmed", "confirmedScheduledTime", "confirmedAt"}
      [] op = "preferences" -> {"extractedPreferences", "crmNotesHash"}
      [] op = "reminder" -> {"scheduledTime", "reminderSet"}
      [] op = "reminderDone" -> {"reminderSet"}

\* C25: when the write of an updateFocusItem call lands, the focus item keeps
\* what every other call has put into the store: each field the call does not
\* update is as it was in the store just before.  In particular a landed
\* confirmation is not reverted by the preference-cache write or by a reminder
\* callback that was in flight.
C25_OverlappingUpdatesBothTakeEffect ==
    [][ obs'.landed \in {"confirm", "unconfirm", "preferences", "reminder", "reminderDone"} =>
          \A f \in FocusItemFields \ updatedFields(obs'.landed) :
              focusItems'[f] = focusItems[f] ]_vars


----------------------------------------------------------------------------
(* C26.  A removed relationship stays removed *)

\* C26: while the vault is unlocked, a focus item appears in the store or in
\* the persisted focus items, where the step before had none, only by an
\* addToFocus landing: once removeFromFocus or deleteCustomer has completed, no
\* overlapping updateFocusItem and no reminder callback brings the item back.
C26_RemovedItemStaysRemoved ==
    [][ ( /\ vaultState = "unlocked" /\ vaultState' = "unlocked"
          /\ \/ focusItems'.present /\ ~focusItems.present
             \/ vault'.focusItems.present /\ ~vault.focusItems.present )
        => obs'.landed = "addToFocus" ]_vars


----------------------------------------------------------------------------
(* C27.  reminderSet and the registered timeout agree *)

\* the timeout the entry of activeReminders cancels is armed and has neither
\* fired nor been cancelled
entryTimerLive ==
    activeReminders.present /\ \E t \in timers : t.id = activeReminders.cancels

\* C27: in every state of the unlocked application in which no store write is
\* awaiting its save and no timeout is due, the focus item has reminderSet
\* exactly when activeReminders holds an entry whose timeout is live.
C27_ReminderSetIffLiveTimer ==
    ( /\ vaultState = "unlocked"
      /\ pendingSaves = << >>
      /\ expired(timers, ClockValues[clock]) = {} )
    => ((focusItems.present /\ focusItems.reminderSet) <=> entryTimerLive)


----------------------------------------------------------------------------
(* C28.  A locked vault stays empty and untouched *)

\* C28: from lockVault until the next unlock the store holds no customer, no
\* focus item and no active reminder, no timeout is left to fire, and nothing
\* is written to the vault, also when a store write was awaiting its save at the
\* moment of locking.
C28_LockedStoreIsEmpty ==
    vaultState = "locked" =>
        /\ ~customers.present
        /\ ~focusItems.present
        /\ ~activeReminders.present
        /\ timers = {}
        /\ ~vault.writtenWhileLocked


----------------------------------------------------------------------------
(* C29.  The vault and the store hold the same focus items *)

\* C29: whenever the application is unlocked and no store write and no
\* un-awaited save is in flight, the focus items persisted in the vault equal
\* the store's focusItems.
C29_VaultEqualsStore ==
    (vaultState = "unlocked" /\ pendingSaves = << >>) => vault.focusItems = focusItems


----------------------------------------------------------------------------
(* C30.  After an unconfirm the live recommendation is offered *)

\* C30: when an unconfirm has landed in the open drawer and the send time is
\* not being edited, the effective send time offered for the next confirm is
\* scheduleRec.suggestedTime, whatever custom date-time had been entered
\* before the confirmation.
C30_UnconfirmOffersLiveRecommendation ==
    ( /\ obs.landed = "unconfirm"
      /\ drawer.open
      /\ ~isTimeConfirmedOf(focusItems)
      /\ ~drawer.isEditingTime )
    => effectiveSendTime(drawer, focusItems) = drawer.scheduleRec.suggestedTime
=============================================================================
